---- MODULE Spec2Model ----
(***************************************************************************)
(* tt-timetracker: the block collector (src/src/collector.rs), the log     *)
(* line parser (src/src/log_parser.rs) and collect_blocks, as a state      *)
(* machine.                                                                *)
(*                                                                         *)
(* Strings are sequences of one-character strings, so that starts_with,    *)
(* split_whitespace and parse_time are computed as the code computes them. *)
(* A NaiveTime is the number of seconds since midnight, a Duration a       *)
(* signed number of seconds.  Option<T> is a sequence of length 0 (None)   *)
(* or 1 (Some).                                                            *)
(***************************************************************************)
EXTENDS Integers, Sequences, FiniteSets, TLC

VARIABLES
    state,      \* BlockCollector.state : Option<ProgressData>
    result,     \* what finalize returned : Option<CollectResult>
    phase,      \* "collecting", "finalized" (collector consumed), "returned" (collect_blocks
                \* returned an error), "panicked"; "block", "written", "parsed" in SpecRound
    n,          \* number of add() calls made so far
    call,       \* history: the most recent call on the collector, with its argument
    pre,        \* history: BlockCollector.state when that call was made
    hist,       \* history: the last two NormalBlock calls while uncorrected (SpecDeep)
    ledger,     \* history: time of the closed blocks per activity and tag (SpecDeep)
    lines,      \* collect_blocks: the line iterator's items
    pos,        \* collect_blocks: number of items consumed
    ending,     \* collect_blocks: add_ending_at
    outcome,    \* collect_blocks: the value returned, None while running
    prefix      \* TTConfig.prefix : Option<String>

vars == <<state, result, phase, n, call, pre, hist, ledger, lines, pos, ending, outcome, prefix>>

-----------------------------------------------------------------------------
(* Bounds *)

\* times are 0..MaxTime
MaxTime == 2

\* add() calls per run of Spec
MaxEvents == 2

\* items of the line iterator given to collect_blocks
MaxLines == 3

\* words of a line given to from_line in SpecParse
MaxTokens == 4

\* add() calls per run of SpecDeep
MaxDeep == 4

-----------------------------------------------------------------------------
(* Strings and options *)

None == << >>

Some(x) == <<x>>

BREAK == <<"b", "r", "e", "a", "k">>

END == <<"e", "n", "d">>

WORK == <<"w">>

VAGUE == <<"_", "v">>

TAG_T == <<"t">>

TAG_S == <<"=", "s">>

TAG_R == <<"=", "r">>

\* starts_with holding only for the prefix itself
starts_with_whole(s, p) == s = p

starts_with(s, p) == Len(s) >= Len(p) /\ SubSeq(s, 1, Len(p)) = p

Range(f) == {f[i] : i \in DOMAIN f}

EmptyMap == [x \in {} |-> 0]

Insert(m, k, v) == [x \in (DOMAIN m) \cup {k} |-> IF x = k THEN v ELSE m[x]]

-----------------------------------------------------------------------------
(* log_parser.rs: activity name rules and blocks *)

is_distributable(activity) == starts_with(activity, <<"_">>)

is_break(activity) == activity = BREAK \/ activity = END

BlockData(start, activity, tags, distribute) ==
    [start |-> start, activity |-> activity, tags |-> tags, distribute |-> distribute]

NormalBlock(b) == [kind |-> "NormalBlock", data |-> b]

ReallyBlock(b) == [kind |-> "ReallyBlock", data |-> b]

TimeCorrection(t) == [kind |-> "TimeCorrection", time |-> t]

CommentBlock == [kind |-> "CommentBlock"]

-----------------------------------------------------------------------------
(* collector.rs: BlockCollector::add *)

\* add_Empty with a ReallyBlock opening the collector as well
add_Empty_really_opens(block) ==
    IF block.kind = "NormalBlock" \/ block.kind = "ReallyBlock"
    THEN Some([summary |-> [start |-> block.data.start,
                            end |-> block.data.start,
                            breaks |-> 0,
                            work_time |-> 0,
                            activities |-> EmptyMap,
                            distribute |-> 0],
               last |-> block.data,
               prev |-> None])
    ELSE None

\* add, state None: only a NormalBlock opens the collector
add_Empty(block) ==
    IF block.kind = "NormalBlock"
    THEN Some([summary |-> [start |-> block.data.start,
                            end |-> block.data.start,
                            breaks |-> 0,
                            work_time |-> 0,
                            activities |-> EmptyMap,
                            distribute |-> 0],
               last |-> block.data,
               prev |-> None])
    ELSE None

\* for duration in act_tags.values_mut() { *duration = *duration + diff }
correct_tags(act_tags, diff) ==
    [t \in DOMAIN act_tags |-> act_tags[t] + diff]

\* add_TimeCorrection choosing breaks or work_time by the open block's activity
add_TimeCorrection_by_last(data, real_start) ==
    LET diff == real_start - data.last.start
        last2 == [data.last EXCEPT !.start = real_start]
        s == data.summary
    IN  IF data.prev # None
        THEN LET before == data.prev[1]
                 entry == s.activities[before.activity]
                 acts2 == [s.activities EXCEPT ![before.activity] =
                              <<entry[1] + diff, correct_tags(entry[2], diff)>>]
             IN  [summary |-> [s EXCEPT
                     !.end = real_start,
                     !.activities = acts2,
                     !.breaks = IF is_break(data.last.activity) THEN @ + diff ELSE @,
                     !.work_time = IF is_break(data.last.activity) THEN @ ELSE @ + diff,
                     !.distribute = IF before.distribute THEN @ + diff ELSE @],
                  last |-> last2,
                  prev |-> data.prev]
        ELSE [summary |-> [s EXCEPT !.end = real_start, !.start = real_start],
              last |-> last2,
              prev |-> data.prev]

\* add_TimeCorrection leaving summary.start alone when there is no previous block
add_TimeCorrection_keeping_start(data, real_start) ==
    LET diff == real_start - data.last.start
        last2 == [data.last EXCEPT !.start = real_start]
        s == data.summary
    IN  IF data.prev # None
        THEN LET before == data.prev[1]
                 entry == s.activities[before.activity]
                 acts2 == [s.activities EXCEPT ![before.activity] =
                              <<entry[1] + diff, correct_tags(entry[2], diff)>>]
             IN  [summary |-> [s EXCEPT
                     !.end = real_start,
                     !.activities = acts2,
                     !.breaks = IF is_break(before.activity) THEN @ + diff ELSE @,
                     !.work_time = IF is_break(before.activity) THEN @ ELSE @ + diff,
                     !.distribute = IF before.distribute THEN @ + diff ELSE @],
                  last |-> last2,
                  prev |-> data.prev]
        ELSE [summary |-> [s EXCEPT !.end = real_start],
              last |-> last2,
              prev |-> data.prev]

\* add_TimeCorrection leaving the start of the open block alone
add_TimeCorrection_keeping_block(data, real_start) ==
    LET diff == real_start - data.last.start
        last2 == [data.last EXCEPT !.start = @]
        s == data.summary
    IN  IF data.prev # None
        THEN LET before == data.prev[1]
                 entry == s.activities[before.activity]
                 acts2 == [s.activities EXCEPT ![before.activity] =
                              <<entry[1] + diff, correct_tags(entry[2], diff)>>]
             IN  [summary |-> [s EXCEPT
                     !.end = real_start,
                     !.activities = acts2,
                     !.breaks = IF is_break(before.activity) THEN @ + diff ELSE @,
                     !.work_time = IF is_break(before.activity) THEN @ ELSE @ + diff,
                     !.distribute = IF before.distribute THEN @ + diff ELSE @],
                  last |-> last2,
                  prev |-> data.prev]
        ELSE [summary |-> [s EXCEPT !.end = real_start, !.start = real_start],
              last |-> last2,
              prev |-> data.prev]

\* add_TimeCorrection leaving summary.end alone
add_TimeCorrection_keeping_end(data, real_start) ==
    LET diff == real_start - data.last.start
        last2 == [data.last EXCEPT !.start = real_start]
        s == data.summary
    IN  IF data.prev # None
        THEN LET before == data.prev[1]
                 entry == s.activities[before.activity]
                 acts2 == [s.activities EXCEPT ![before.activity] =
                              <<entry[1] + diff, correct_tags(entry[2], diff)>>]
             IN  [summary |-> [s EXCEPT
                     !.end = @,
                     !.activities = acts2,
                     !.breaks = IF is_break(before.activity) THEN @ + diff ELSE @,
                     !.work_time = IF is_break(before.activity) THEN @ ELSE @ + diff,
                     !.distribute = IF before.distribute THEN @ + diff ELSE @],
                  last |-> last2,
                  prev |-> data.prev]
        ELSE [summary |-> [s EXCEPT !.end = @, !.start = real_start],
              last |-> last2,
              prev |-> data.prev]

\* add_TimeCorrection leaving summary.distribute alone
add_TimeCorrection_without_distribute(data, real_start) ==
    LET diff == real_start - data.last.start
        last2 == [data.last EXCEPT !.start = real_start]
        s == data.summary
    IN  IF data.prev # None
        THEN LET before == data.prev[1]
                 entry == s.activities[before.activity]
                 acts2 == [s.activities EXCEPT ![before.activity] =
                              <<entry[1] + diff, correct_tags(entry[2], diff)>>]
             IN  [summary |-> [s EXCEPT
                     !.end = real_start,
                     !.activities = acts2,
                     !.breaks = IF is_break(before.activity) THEN @ + diff ELSE @,
                     !.work_time = IF is_break(before.activity) THEN @ ELSE @ + diff],
                  last |-> last2,
                  prev |-> data.prev]
        ELSE [summary |-> [s EXCEPT !.end = real_start, !.start = real_start],
              last |-> last2,
              prev |-> data.prev]

\* add, state Some(data), Block::TimeCorrection(real_start)
add_TimeCorrection(data, real_start) ==
    LET diff == real_start - data.last.start
        last2 == [data.last EXCEPT !.start = real_start]
        s == data.summary
    IN  IF data.prev # None
        THEN LET before == data.prev[1]
                 entry == s.activities[before.activity]
                 acts2 == [s.activities EXCEPT ![before.activity] =
                              <<entry[1] + diff, correct_tags(entry[2], diff)>>]
             IN  [summary |-> [s EXCEPT
                     !.end = real_start,
                     !.activities = acts2,
                     !.breaks = IF is_break(before.activity) THEN @ + diff ELSE @,
                     !.work_time = IF is_break(before.activity) THEN @ ELSE @ + diff,
                     !.distribute = IF before.distribute THEN @ + diff ELSE @],
                  last |-> last2,
                  prev |-> data.prev]
        ELSE [summary |-> [s EXCEPT !.end = real_start, !.start = real_start],
              last |-> last2,
              prev |-> data.prev]

\* add_ReallyBlock taking the ReallyBlock's start too
add_ReallyBlock_with_start(data, b) == [data EXCEPT !.last = b]

\* add_ReallyBlock keeping the distribute flag of the block it replaces
add_ReallyBlock_keeping_flag(data, b) ==
    [data EXCEPT !.last = BlockData(data.last.start, b.activity, b.tags, data.last.distribute)]

\* add, state Some(data), Block::ReallyBlock(b)
add_ReallyBlock(data, b) ==
    [data EXCEPT !.last = BlockData(data.last.start, b.activity, b.tags, b.distribute)]

\* for tag in data.last.tags.iter() { duration_map.insert(tag, old + duration) }
RECURSIVE merge_tags(_, _, _)
merge_tags(duration_map, tags, duration) ==
    IF tags = << >>
    THEN duration_map
    ELSE LET tag == Head(tags)
             old_tag_duration == IF tag \in DOMAIN duration_map THEN duration_map[tag] ELSE 0
         IN  merge_tags(Insert(duration_map, tag, old_tag_duration + duration),
                        Tail(tags), duration)

\* data.last.tags.iter().map(|tag| (tag.clone(), duration)).collect()
collect_tags(tags, duration) == [t \in Range(tags) |-> duration]

\* merge_activity that records nothing for an activity without an entry
merge_activity_known_only(activities, last, duration) ==
    IF last.activity \in DOMAIN activities
    THEN LET entry == activities[last.activity]
         IN  [activities EXCEPT ![last.activity] =
                 <<entry[1] + duration, merge_tags(entry[2], last.tags, duration)>>]
    ELSE activities

\* merge_activity replacing the duration of an entry instead of adding to it
merge_activity_replacing(activities, last, duration) ==
    IF last.activity \in DOMAIN activities
    THEN LET entry == activities[last.activity]
         IN  [activities EXCEPT ![last.activity] =
                 <<duration, merge_tags(entry[2], last.tags, duration)>>]
    ELSE Insert(activities, last.activity, <<duration, collect_tags(last.tags, duration)>>)

\* match data.summary.activities.get_mut(&data.last.activity) { Some.. None.. }
merge_activity(activities, last, duration) ==
    IF last.activity \in DOMAIN activities
    THEN LET entry == activities[last.activity]
         IN  [activities EXCEPT ![last.activity] =
                 <<entry[1] + duration, merge_tags(entry[2], last.tags, duration)>>]
    ELSE Insert(activities, last.activity, <<duration, collect_tags(last.tags, duration)>>)

\* close_totals with the time of a break counted as work time as well
close_totals_break_as_work(s, last, duration, end) ==
    [s EXCEPT
        !.end = end,
        !.breaks = IF is_break(last.activity) THEN @ + duration ELSE @,
        !.work_time = @ + duration,
        !.distribute = IF last.distribute THEN @ + duration ELSE @]

\* the totals of the summary when the open block is closed after `duration`
close_totals(s, last, duration, end) ==
    [s EXCEPT
        !.end = end,
        !.breaks = IF is_break(last.activity) THEN @ + duration ELSE @,
        !.work_time = IF is_break(last.activity) THEN @ ELSE @ + duration,
        !.distribute = IF last.distribute THEN @ + duration ELSE @]

\* add, state Some(data), Block::NormalBlock(b); the assertion is add_panics
add_NormalBlock(data, b) ==
    LET duration == b.start - data.last.start
        s == close_totals(data.summary, data.last, duration, b.start)
    IN  [summary |-> [s EXCEPT !.activities = merge_activity(@, data.last, duration)],
         last |-> b,
         prev |-> Some(data.last)]

\* assert!(b.start >= data.last.start)
add_panics(st, block) ==
    /\ st # None
    /\ block.kind = "NormalBlock"
    /\ ~(block.data.start >= st[1].last.start)

add(st, block) ==
    IF st = None
    THEN add_Empty(block)
    ELSE CASE block.kind = "CommentBlock" -> st
           [] block.kind = "TimeCorrection" -> Some(add_TimeCorrection(st[1], block.time))
           [] block.kind = "ReallyBlock" -> Some(add_ReallyBlock(st[1], block.data))
           [] block.kind = "NormalBlock" -> Some(add_NormalBlock(st[1], block.data))

-----------------------------------------------------------------------------
(* collector.rs: BlockCollector::finalize *)

\* data.last.tags.iter().find(|s| s.starts_with("=")).map(|s| s.to_string())
RECURSIVE find_shortname(_)
find_shortname(tags) ==
    IF tags = << >>
    THEN None
    ELSE IF starts_with(Head(tags), <<"=">>)
         THEN Some(Head(tags))
         ELSE find_shortname(Tail(tags))

\* the synthetic block finalize adds when a closing time is given
closing_block(time) == NormalBlock(BlockData(time, BREAK, << >>, FALSE))

\* finalize_close closing the open block at the end of the day when no time is given
finalize_close_always(st, at) ==
    add(st, closing_block(IF at # None THEN at[1] ELSE MaxTime))

\* the collector state finalize reads the summary from
finalize_close(st, at) ==
    IF at # None THEN add(st, closing_block(at[1])) ELSE st

finalize_panics(st, at) ==
    st # None /\ at # None /\ add_panics(st, closing_block(at[1]))

\* finalize reading the final block after the closing block was added
finalize_late(st, at) ==
    IF st = None
    THEN None
    ELSE LET closed == finalize_close(st, at)
             data == closed[1]
         IN  Some([summary |-> data.summary,
                   final_activity |-> data.last.activity,
                   final_shortname |-> find_shortname(data.last.tags),
                   final_start |-> data.last.start])

finalize(st, at) ==
    IF st = None
    THEN None
    ELSE LET data == st[1]
             closed == finalize_close(st, at)
         IN  Some([summary |-> closed[1].summary,
                   final_activity |-> data.last.activity,
                   final_shortname |-> find_shortname(data.last.tags),
                   final_start |-> data.last.start])

-----------------------------------------------------------------------------
(* Inputs *)

Times == 0..MaxTime

\* activity and distribute flag: as the parser sets the flag, and one block
\* built by a caller that sets the flag on a plain activity
Kinds == {<<WORK, FALSE>>, <<BREAK, FALSE>>, <<VAGUE, TRUE>>, <<WORK, TRUE>>}

\* no tag, a repeated tag, a shortname after a tag, two shortnames
TagLists == {<< >>, <<TAG_T, TAG_T>>, <<TAG_T, TAG_S>>, <<TAG_S, TAG_R>>}

BlockDatas ==
    {BlockData(t, k[1], tags, k[2]) : t \in Times, k \in Kinds, tags \in TagLists}

\* the blocks of the longer runs: one activity with and without tags, a break,
\* a distributable activity
DeepShapes ==
    {<<WORK, << >>, FALSE>>, <<WORK, <<TAG_T, TAG_T>>, FALSE>>,
     <<BREAK, << >>, FALSE>>, <<VAGUE, << >>, TRUE>>}

DeepBlocks == {BlockData(t, sh[1], sh[2], sh[3]) : t \in Times, sh \in DeepShapes}

\* a ReallyBlock's start is the time of its log line
DeepReallys == {BlockData(MaxTime, sh[1], sh[2], sh[3]) : sh \in DeepShapes}

ClosingTimes == {None} \cup {Some(t) : t \in Times}

-----------------------------------------------------------------------------
(* The collector as a state machine: one action per call *)

collectVars == <<lines, pos, ending, outcome, prefix>>

NoHist == [a |-> None, b |-> None, base |-> None, ncorr |-> 0]

Init ==
    /\ state = None
    /\ result = None
    /\ phase = "collecting"
    /\ n = 0
    /\ call = [op |-> "new"]
    /\ pre = None
    /\ hist = NoHist
    /\ ledger = EmptyMap
    /\ lines = << >>
    /\ pos = 0
    /\ ending = None
    /\ outcome = None
    /\ prefix = None

\* collector.add(block), at most `limit` times
Add(block, limit) ==
    /\ phase = "collecting"
    /\ n < limit
    /\ n' = n + 1
    /\ call' = [op |-> "add", block |-> block]
    /\ IF add_panics(state, block)
       THEN phase' = "panicked" /\ UNCHANGED <<state, result>>
       ELSE state' = add(state, block) /\ UNCHANGED <<phase, result>>

\* collector.finalize(at); the collector is consumed
Finalize(at) ==
    /\ phase = "collecting"
    /\ call' = [op |-> "finalize", at |-> at]
    /\ UNCHANGED n
    /\ IF finalize_panics(state, at)
       THEN phase' = "panicked" /\ UNCHANGED <<state, result>>
       ELSE result' = finalize(state, at) /\ state' = None /\ phase' = "finalized"

\* Spec: any blocks, few calls; `pre` remembers the collector before the call
Remember == pre' = state /\ UNCHANGED <<hist, ledger, collectVars>>

AddNormal == \E b \in BlockDatas : Add(NormalBlock(b), MaxEvents) /\ Remember

AddReally == \E b \in BlockDatas : Add(ReallyBlock(b), MaxEvents) /\ Remember

AddCorrection == \E t \in Times : Add(TimeCorrection(t), MaxEvents) /\ Remember

AddComment == Add(CommentBlock, MaxEvents) /\ Remember

DoFinalize == \E at \in ClosingTimes : Finalize(at) /\ Remember

Next == AddNormal \/ AddReally \/ AddCorrection \/ AddComment \/ DoFinalize

Spec == Init /\ [][Next]_vars

-----------------------------------------------------------------------------
(* SpecDeep: more calls over fewer blocks, with the history that the claims *)
(* about several calls refer to                                            *)

Given(b) == Some([start |-> b.start, activity |-> b.activity, distribute |-> b.distribute])

\* a NormalBlock call: the block it closes becomes `a` if no TimeCorrection
\* touched it, the new block `b`; `base` is the summary before the call
track_normal(h, st, b) ==
    [a |-> IF h.ncorr = 0 THEN h.b ELSE None,
     b |-> Given(b),
     base |-> IF st = None THEN None ELSE Some(st[1].summary),
     ncorr |-> 0]

\* a TimeCorrection call on an open collector; after a second one the pair
\* a, b is forgotten
track_correction(h, st) ==
    IF st = None
    THEN h
    ELSE IF h.ncorr = 0
         THEN [h EXCEPT !.ncorr = 1]
         ELSE [a |-> None, b |-> h.b, base |-> None, ncorr |-> 2]

\* `d` more time for activity `a` under each tag of `tagset`
credit(l, a, tagset, d) ==
    LET old == IF a \in DOMAIN l THEN l[a] ELSE EmptyMap
    IN  Insert(l, a, [g \in (DOMAIN old) \cup tagset |->
                         (IF g \in DOMAIN old THEN old[g] ELSE 0)
                         + (IF g \in tagset THEN d ELSE 0)])

\* the time of the closed blocks per activity and tag, each block counted
\* once: a NormalBlock closes the open block, a TimeCorrection moves the end
\* of the previous one
track_ledger(l, st, block) ==
    IF st = None
    THEN l
    ELSE LET data == st[1]
         IN  CASE block.kind = "NormalBlock" ->
                    credit(l, data.last.activity, Range(data.last.tags),
                           block.data.start - data.last.start)
               [] block.kind = "TimeCorrection" /\ data.prev # None ->
                    credit(l, data.prev[1].activity, Range(data.prev[1].tags),
                           block.time - data.last.start)
               [] OTHER -> l

Track(block) ==
    /\ pre' = state
    /\ IF add_panics(state, block)
       THEN UNCHANGED <<hist, ledger>>
       ELSE /\ hist' = CASE block.kind = "NormalBlock" ->
                               track_normal(hist, state, block.data)
                         [] block.kind = "TimeCorrection" -> track_correction(hist, state)
                         [] OTHER -> hist
            /\ ledger' = track_ledger(ledger, state, block)
    /\ UNCHANGED collectVars

DeepNormal == \E b \in DeepBlocks : Add(NormalBlock(b), MaxDeep) /\ Track(NormalBlock(b))

DeepReally == \E b \in DeepReallys : Add(ReallyBlock(b), MaxDeep) /\ Track(ReallyBlock(b))

DeepCorrection ==
    \E t \in Times : Add(TimeCorrection(t), MaxDeep) /\ Track(TimeCorrection(t))

DeepComment == Add(CommentBlock, MaxDeep) /\ Track(CommentBlock)

DeepFinalize ==
    \E at \in ClosingTimes :
        /\ Finalize(at)
        /\ pre' = state
        /\ ledger' = IF at = None \/ finalize_panics(state, at)
                      THEN ledger
                      ELSE track_ledger(ledger, state, closing_block(at[1]))
        /\ UNCHANGED <<hist, collectVars>>

NextDeep == DeepNormal \/ DeepReally \/ DeepCorrection \/ DeepComment \/ DeepFinalize

SpecDeep == Init /\ [][NextDeep]_vars

-----------------------------------------------------------------------------
(* SpecMonotone: only NormalBlocks, each starting later than the one before *)

MonoNormal ==
    \E b \in BlockDatas :
        /\ state # None => b.start > state[1].last.start
        /\ Add(NormalBlock(b), MaxTime + 1)
        /\ Remember

MonoFinalize == \E at \in ClosingTimes : Finalize(at) /\ Remember

NextMonotone == MonoNormal \/ MonoFinalize

SpecMonotone == Init /\ [][NextMonotone]_vars

-----------------------------------------------------------------------------
(* SpecOrdered: NormalBlocks in the order of their starts, a closing time not *)
(* before the last of them, any ReallyBlocks and TimeCorrections in between   *)

\* the start of the last NormalBlock given is not later than `t`
InOrder(t) == IF hist.b = None THEN TRUE ELSE hist.b[1].start <= t

OrderedNormal ==
    \E b \in DeepBlocks :
        /\ InOrder(b.start)
        /\ Add(NormalBlock(b), MaxDeep)
        /\ Track(NormalBlock(b))

OrderedFinalize ==
    \E at \in ClosingTimes :
        /\ IF at = None THEN TRUE ELSE InOrder(at[1])
        /\ Finalize(at)
        /\ pre' = state
        /\ UNCHANGED <<hist, ledger, collectVars>>

NextOrdered == OrderedNormal \/ DeepReally \/ DeepCorrection \/ DeepComment \/ OrderedFinalize

SpecOrdered == Init /\ [][NextOrdered]_vars

-----------------------------------------------------------------------------
(* SpecCompensate: two collectors read the same events, but for one pair:     *)
(* `state` is given NormalBlock b and then TimeCorrection(t2), `pre` is given *)
(* b with the start t2 at once.  `pos` is the place of the pair, 0 before it; *)
(* `ledger` keeps the pair.                                                   *)

InitCompensate ==
    /\ state = None
    /\ result = None
    /\ phase = "collecting"
    /\ n = 0
    /\ call = [op |-> "new"]
    /\ pre = None
    /\ hist = NoHist
    /\ ledger = EmptyMap
    /\ lines = << >>
    /\ pos = 0
    /\ ending = None
    /\ outcome = None
    /\ prefix = None

\* both collectors: add(block)
Both(block) ==
    /\ phase = "collecting"
    /\ n < MaxDeep
    /\ n' = n + 1
    /\ call' = [op |-> "add", block |-> block]
    /\ IF add_panics(state, block) \/ add_panics(pre, block)
       THEN phase' = "panicked" /\ UNCHANGED <<state, pre>>
       ELSE /\ state' = add(state, block)
            /\ pre' = add(pre, block)
            /\ UNCHANGED phase

\* what an event leaves alone
Kept == UNCHANGED <<result, hist, ledger, collectVars>>

BothNormal == \E b \in DeepBlocks : Both(NormalBlock(b)) /\ Kept

BothReally == \E b \in DeepReallys : Both(ReallyBlock(b)) /\ Kept

BothCorrection == \E t \in Times : Both(TimeCorrection(t)) /\ Kept

BothComment == Both(CommentBlock) /\ Kept

\* the pair: add(NormalBlock b); add(TimeCorrection(t2)) for one collector,
\* add(NormalBlock b with start t2) for the other; t2 is not earlier than the
\* start of the block open before b
ReplacePair ==
    \E b \in DeepBlocks, t2 \in Times :
        LET moved == NormalBlock([b EXCEPT !.start = t2])
        IN  /\ phase = "collecting"
            /\ pos = 0
            /\ n < MaxDeep
            /\ IF state = None THEN TRUE ELSE t2 >= state[1].last.start
            /\ n' = n + 1
            /\ pos' = n + 1
            /\ ledger' = [block |-> b, time |-> t2]
            /\ call' = [op |-> "add", block |-> moved]
            /\ IF add_panics(state, NormalBlock(b)) \/ add_panics(pre, moved)
               THEN phase' = "panicked" /\ UNCHANGED <<state, pre>>
               ELSE /\ state' = add(add(state, NormalBlock(b)), TimeCorrection(t2))
                    /\ pre' = add(pre, moved)
                    /\ UNCHANGED phase
            /\ UNCHANGED <<result, hist, lines, ending, outcome, prefix>>

\* both collectors: finalize(at)
BothFinalize ==
    \E at \in ClosingTimes :
        /\ phase = "collecting"
        /\ call' = [op |-> "finalize", at |-> at]
        /\ IF finalize_panics(state, at) \/ finalize_panics(pre, at)
           THEN phase' = "panicked" /\ UNCHANGED <<state, pre, result, outcome>>
           ELSE /\ result' = finalize(state, at)
                /\ outcome' = Some(finalize(pre, at))
                /\ state' = None
                /\ pre' = None
                /\ phase' = "finalized"
        /\ UNCHANGED <<n, hist, ledger, lines, pos, ending, prefix>>

NextCompensate ==
    BothNormal \/ BothReally \/ BothCorrection \/ BothComment \/ ReplacePair \/ BothFinalize

SpecCompensate == InitCompensate /\ [][NextCompensate]_vars

-----------------------------------------------------------------------------
(* utils.rs, log_parser.rs: parsing a log line *)

Ok(v) == [ok |-> TRUE, value |-> v]
Err(e) == [ok |-> FALSE, value |-> e]

\* TTErrorKind::IoError(err), TTErrorKind::ParseError(msg, line); context is vec![]
IoError(err) == [kind |-> "IoError", msg |-> err, line |-> << >>, context |-> << >>]
\* ParseError carrying the line with its whitespace taken out
ParseError_squeezed(msg, line) ==
    [kind |-> "ParseError", msg |-> msg,
     line |-> SelectSeq(line, LAMBDA c : c \notin {" ", "\t"}), context |-> << >>]

ParseError(msg, line) == [kind |-> "ParseError", msg |-> msg, line |-> line, context |-> << >>]

WHITESPACE == {" ", "\t"}
REALLY == <<"r", "e", "a", "l", "l", "y">>

RECURSIVE split_words(_, _, _)
split_words(s, word, words) ==
    IF s = << >>
    THEN IF word = << >> THEN words ELSE Append(words, word)
    ELSE IF Head(s) \in WHITESPACE
         THEN split_words(Tail(s), << >>, IF word = << >> THEN words ELSE Append(words, word))
         ELSE split_words(Tail(s), Append(word, Head(s)), words)

\* str::split_whitespace: the maximal runs of non-whitespace, in order
split_whitespace(s) == split_words(s, << >>, << >>)

is_digit(c) == c \in {"0", "1", "2", "3", "4", "5", "6", "7", "8", "9"}

digit(c) ==
    CASE c = "0" -> 0 [] c = "1" -> 1 [] c = "2" -> 2 [] c = "3" -> 3 [] c = "4" -> 4
      [] c = "5" -> 5 [] c = "6" -> 6 [] c = "7" -> 7 [] c = "8" -> 8 [] c = "9" -> 9

\* how many leading digits a %H or %M field takes: one or two, as many as there are
scan_number(s) ==
    IF Len(s) >= 2 /\ is_digit(s[1]) /\ is_digit(s[2]) THEN 2
    ELSE IF Len(s) >= 1 /\ is_digit(s[1]) THEN 1
    ELSE 0

number(s) == IF Len(s) = 2 THEN 10 * digit(s[1]) + digit(s[2]) ELSE digit(s[1])

\* NaiveTime::parse_from_str(s, "%H:%M"): Some(time, at second 0), None on error
parse_time(s) ==
    LET hl == scan_number(s)
    IN  IF hl = 0 THEN None
        ELSE LET rest == SubSeq(s, hl + 1, Len(s))
             IN  IF rest = << >> \/ Head(rest) # ":" THEN None
                 ELSE LET m == Tail(rest)
                      IN  IF scan_number(m) = 0 \/ scan_number(m) # Len(m) THEN None
                          ELSE LET hour == number(SubSeq(s, 1, hl))
                                   minute == number(m)
                               IN  IF hour > 23 \/ minute > 59
                                   THEN None
                                   ELSE Some(hour * 3600 + minute * 60)

\* resolve_prefix_for_number with the configured prefix left out
resolve_prefix_never(activity, pfx) == activity

resolve_prefix_for_number(activity, pfx) ==
    IF activity # << >> /\ is_digit(activity[1]) /\ pfx # None
    THEN pfx[1] \o <<"-">> \o activity
    ELSE activity

\* from_line taking the time of a correction from the first word
from_line_first_time(line, pfx) ==
    IF ~line.ok THEN Err(IoError(line.value))
    ELSE
    LET text == line.value
        words == split_whitespace(text)
    IN  IF words = << >> THEN Ok(CommentBlock)
        ELSE IF starts_with(words[1], <<"#">>) THEN Ok(CommentBlock)
        ELSE IF parse_time(words[1]) = None
        THEN Err(ParseError("cannot parse start time", text))
        ELSE IF Len(words) < 2
        THEN Err(ParseError("Line does not contain at least 2 words", text))
        ELSE IF starts_with(words[2], <<"#">>) THEN Ok(CommentBlock)
        ELSE
        LET is_really_block == words[2] = REALLY
            k == IF is_really_block THEN 3 ELSE 2
        IN  IF Len(words) < k
            THEN Err(ParseError("really block does not contain an activity", text))
            ELSE
            LET manual_time == parse_time(words[k])
            IN  IF manual_time # None /\ is_really_block
                THEN IF Len(words) > k
                     THEN Err(ParseError("time correction cannot have further data, i.e. use only <time> really <time>", text))
                     ELSE Ok(TimeCorrection(parse_time(words[1])[1]))
                ELSE
                LET a == IF manual_time # None THEN k + 1 ELSE k
                    start == IF manual_time # None THEN manual_time[1] ELSE parse_time(words[1])[1]
                IN  IF Len(words) < a
                    THEN Err(ParseError("really block does not contain an activity", text))
                    ELSE
                    LET data == BlockData(start,
                                          resolve_prefix_for_number(words[a], pfx),
                                          SubSeq(words, a + 1, Len(words)),
                                          is_distributable(words[a]))
                    IN  IF is_really_block THEN Ok(ReallyBlock(data)) ELSE Ok(NormalBlock(data))

\* Block::from_line
from_line(line, pfx) ==
    IF ~line.ok THEN Err(IoError(line.value))
    ELSE
    LET text == line.value
        words == split_whitespace(text)
    IN  IF words = << >> THEN Ok(CommentBlock)
        ELSE IF starts_with(words[1], <<"#">>) THEN Ok(CommentBlock)
        ELSE IF parse_time(words[1]) = None
        THEN Err(ParseError("cannot parse start time", text))
        ELSE IF Len(words) < 2
        THEN Err(ParseError("Line does not contain at least 2 words", text))
        ELSE IF starts_with(words[2], <<"#">>) THEN Ok(CommentBlock)
        ELSE
        LET is_really_block == words[2] = REALLY
            k == IF is_really_block THEN 3 ELSE 2
        IN  IF Len(words) < k
            THEN Err(ParseError("really block does not contain an activity", text))
            ELSE
            LET manual_time == parse_time(words[k])
            IN  IF manual_time # None /\ is_really_block
                THEN IF Len(words) > k
                     THEN Err(ParseError("time correction cannot have further data, i.e. use only <time> really <time>", text))
                     ELSE Ok(TimeCorrection(manual_time[1]))
                ELSE
                LET a == IF manual_time # None THEN k + 1 ELSE k
                    start == IF manual_time # None THEN manual_time[1] ELSE parse_time(words[1])[1]
                IN  IF Len(words) < a
                    THEN Err(ParseError("really block does not contain an activity", text))
                    ELSE
                    LET data == BlockData(start,
                                          resolve_prefix_for_number(words[a], pfx),
                                          SubSeq(words, a + 1, Len(words)),
                                          is_distributable(words[a]))
                    IN  IF is_really_block THEN Ok(ReallyBlock(data)) ELSE Ok(NormalBlock(data))

-----------------------------------------------------------------------------
(* SpecCollect: collect_blocks over a line iterator *)

\* the loop body that lets a bad line pass
collect_step_skipping(st, block) ==
    IF block.ok THEN Ok(add(st, block.value)) ELSE Ok(st)

\* the loop body: Ok(b) => collector.add(b), Err(err) => return Err(err)
collect_step(st, block) ==
    IF block.ok THEN Ok(add(st, block.value)) ELSE Err(block.value)

LineItems ==
    { Ok(<<" ">>),
      Ok(<<"#", "c">>),
      Ok(<<"0", ":", "0", " ", "w">>),
      Ok(<<" ", "0", ":", "1", " ", " ", "7", " ", "=", "s">>),
      Ok(<<"0", ":", "2", " ", "0", ":", "1", " ", "_", "v">>),
      Ok(<<"0", ":", "2", " ", "r", "e", "a", "l", "l", "y", " ", "w", " ", "t">>),
      Ok(<<"0", ":", "2", " ", "r", "e", "a", "l", "l", "y", " ", "0", ":", "1">>),
      Ok(<<"2", "5", ":", "0", " ", "w">>),
      Ok(<<"0", ":", "1">>),
      Ok(<<"0", ":", "1", " ", "r", "e", "a", "l", "l", "y">>),
      Ok(<<" ", "0", ":", "2", " ", " ", "r", "e", "a", "l", "l", "y", " ", "0", ":", "1", " ", "x">>),
      Err("message") }

LineSeqs == UNION {[1..k -> LineItems] : k \in 0..MaxLines}

Endings == {None, Some(0), Some(60 * MaxTime)}

Prefixes == {None, Some(<<"P">>)}

InitCollect ==
    /\ state = None
    /\ result = None
    /\ phase = "collecting"
    /\ n = 0
    /\ call = [op |-> "new"]
    /\ pre = None
    /\ hist = NoHist
    /\ ledger = EmptyMap
    /\ lines \in LineSeqs
    /\ pos = 0
    /\ ending \in Endings
    /\ outcome = None
    /\ prefix \in Prefixes

\* one turn of the for loop: the iterator yields the next item, from_line maps
\* it, and the block is added or the error returned
CollectLine ==
    /\ phase = "collecting"
    /\ pos < Len(lines)
    /\ pos' = pos + 1
    /\ n' = n + 1
    /\ pre' = state
    /\ LET block == from_line(lines[pos + 1], prefix)
       IN  /\ call' = [op |-> "from_line", block |-> block]
           /\ IF block.ok /\ add_panics(state, block.value)
              THEN phase' = "panicked" /\ UNCHANGED <<state, outcome>>
              ELSE LET step == collect_step(state, block)
                   IN  IF step.ok
                       THEN state' = step.value /\ UNCHANGED <<phase, outcome>>
                       ELSE /\ outcome' = Some(step)
                            /\ phase' = "returned"
                            /\ UNCHANGED state
    /\ UNCHANGED <<result, hist, ledger, lines, ending, prefix>>

\* the iterator is exhausted: Ok(collector.finalize(add_ending_at))
CollectFinalize ==
    /\ pos = Len(lines)
    /\ Finalize(ending)
    /\ pre' = state
    /\ outcome' = IF finalize_panics(state, ending)
                  THEN outcome
                  ELSE Some(Ok(finalize(state, ending)))
    /\ UNCHANGED <<hist, ledger, lines, pos, ending, prefix>>

NextCollect == CollectLine \/ CollectFinalize

SpecCollect == InitCollect /\ [][NextCollect]_vars

-----------------------------------------------------------------------------
(* utils.rs, log_parser.rs: writing a log line *)

digit_char(d) == <<"0", "1", "2", "3", "4", "5", "6", "7", "8", "9">>[d + 1]

\* a number below 100 as two digits, padded with a zero
two_digits(v) == <<digit_char(v \div 10), digit_char(v % 10)>>

\* t.format("%H:%M"): hour and minute, the seconds are not written
format_time(t) == two_digits(t \div 3600) \o <<":">> \o two_digits((t \div 60) % 60)

\* words.join(" ")
RECURSIVE join(_, _)
join(words, sep) ==
    IF words = << >> THEN << >>
    ELSE IF Len(words) = 1 THEN Head(words)
    ELSE Head(words) \o sep \o join(Tail(words), sep)

\* Block::to_string
to_string(block, timestamp) ==
    CASE block.kind \in {"NormalBlock", "ReallyBlock"} ->
            join(<<format_time(timestamp)>>
                 \o (IF block.kind = "ReallyBlock" THEN <<REALLY>> ELSE << >>)
                 \o (IF block.data.start # timestamp
                     THEN <<format_time(block.data.start)>>
                     ELSE << >>)
                 \o <<block.data.activity>>
                 \o block.data.tags,
                 <<" ">>)
      [] block.kind = "TimeCorrection" ->
            format_time(timestamp) \o <<" ">> \o REALLY \o <<" ">> \o format_time(block.time)
      [] block.kind = "CommentBlock" -> << >>

-----------------------------------------------------------------------------
(* SpecRound: a block is written as a log line and the line is parsed again *)

\* 00:00:00, 00:00:30, 00:01:00, 23:10:00
RoundTimes == {0, 30, 60, 23 * 3600 + 10 * 60}

RoundActivities ==
    {WORK, VAGUE, <<"7">>, REALLY, <<"#", "c">>, <<"0", ":", "1">>, << >>, <<"a", " ", "b">>}

RoundTagLists == {<< >>, <<TAG_S, TAG_T>>, <<<<"a", " ", "b">>>>, <<<< >>>>}

RoundBlocks ==
    {NormalBlock(BlockData(s, a, t, d)) :
        s \in RoundTimes, a \in RoundActivities, t \in RoundTagLists, d \in BOOLEAN}
    \cup {ReallyBlock(BlockData(s, a, t, d)) :
        s \in RoundTimes, a \in RoundActivities, t \in RoundTagLists, d \in BOOLEAN}
    \cup {TimeCorrection(t) : t \in RoundTimes}

InitRound ==
    /\ state = None
    /\ result = None
    /\ phase = "block"
    /\ n = 0
    /\ call \in {[op |-> "to_string", block |-> b, timestamp |-> ts] :
                    b \in RoundBlocks, ts \in RoundTimes}
    /\ pre = None
    /\ hist = NoHist
    /\ ledger = EmptyMap
    /\ lines = << >>
    /\ pos = 0
    /\ ending = None
    /\ outcome = None
    /\ prefix \in Prefixes

\* writeln!(writer, "{}", block.to_string(timestamp))
WriteLine ==
    /\ phase = "block"
    /\ lines' = <<Ok(to_string(call.block, call.timestamp))>>
    /\ phase' = "written"
    /\ UNCHANGED <<state, result, n, call, pre, hist, ledger, pos, ending, outcome, prefix>>

\* Block::from_line on the line just written
ReadLine ==
    /\ phase = "written"
    /\ outcome' = Some(from_line(lines[1], prefix))
    /\ pos' = 1
    /\ phase' = "parsed"
    /\ UNCHANGED <<state, result, n, call, pre, hist, ledger, lines, ending, prefix>>

NextRound == WriteLine \/ ReadLine

SpecRound == InitRound /\ [][NextRound]_vars

-----------------------------------------------------------------------------
(* f64 arithmetic as report.rs uses it, for integers below 2^17.  A natural   *)
(* number too large for one integer is a sequence of digits to the base 2^13, *)
(* least significant first.  Rounding is to nearest, ties to even.            *)

RADIX == 2 ^ 13

\* digits + v
RECURSIVE big_add(_, _)
big_add(digits, v) ==
    IF v = 0 THEN digits
    ELSE IF digits = << >> THEN <<v % RADIX>> \o big_add(<< >>, v \div RADIX)
    ELSE <<(Head(digits) + v) % RADIX>> \o big_add(Tail(digits), (Head(digits) + v) \div RADIX)

\* digits * p + carry
RECURSIVE big_times(_, _, _)
big_times(digits, p, carry) ==
    IF digits = << >>
    THEN IF carry = 0 THEN << >> ELSE <<carry % RADIX>> \o big_times(<< >>, p, carry \div RADIX)
    ELSE <<(Head(digits) * p + carry) % RADIX>>
         \o big_times(Tail(digits), p, (Head(digits) * p + carry) \div RADIX)

\* the number of bits of digits, the last digit not 0
bit_length(digits) ==
    13 * (Len(digits) - 1)
    + (CHOOSE b \in 1..13 : 2 ^ (b - 1) <= digits[Len(digits)] /\ digits[Len(digits)] < 2 ^ b)

\* digits \div 2^shift, a number below 2^31
RECURSIVE shift_right(_, _)
shift_right(digits, shift) ==
    IF digits = << >> THEN 0
    ELSE IF shift >= 13 THEN shift_right(Tail(digits), shift - 13)
    ELSE Head(digits) \div (2 ^ shift) + (2 ^ (13 - shift)) * shift_right(Tail(digits), 0)

\* <<b * 2^k, k>> with b * 2^k <= a < b * 2^(k+1), for a >= b
RECURSIVE scale_divisor(_, _, _)
scale_divisor(a, b, k) == IF a >= 2 * b THEN scale_divisor(a, 2 * b, k + 1) ELSE <<b, k>>

\* <<a * 2^j, j>> with b <= a * 2^j < 2 * b, for a < b
RECURSIVE scale_dividend(_, _, _)
scale_dividend(a, b, j) == IF a < b THEN scale_dividend(2 * a, b, j + 1) ELSE <<a, j>>

\* a as f64 / b as f64 for integers a > 0, b > 0: the f64 nearest to a / b, as
\* mantissa (53 bits, or 2^53) and exponent, value = mantissa * 2^exp
f64_div(a, b) ==
    LET num == IF a >= b THEN a ELSE scale_dividend(a, b, 0)[1]
        den == IF a >= b THEN scale_divisor(a, b, 0)[1] ELSE b
        k == IF a >= b THEN scale_divisor(a, b, 0)[2] ELSE 0 - scale_dividend(a, b, 0)[2]
        r0 == num - den
        d1 == (r0 * RADIX) \div den
        r1 == (r0 * RADIX) % den
        d2 == (r1 * RADIX) \div den
        r2 == (r1 * RADIX) % den
        d3 == (r2 * RADIX) \div den
        r3 == (r2 * RADIX) % den
        d4 == (r3 * RADIX) \div den
        r4 == (r3 * RADIX) % den
        mantissa == <<d4, d3, d2, d1, 1>>
        up == 2 * r4 > den \/ (2 * r4 = den /\ d4 % 2 = 1)
    IN  [mantissa |-> IF up THEN big_add(mantissa, 1) ELSE mantissa, exp |-> k - 52]

\* (p as f64 * x) as i64 for an integer p > 0 and x < 1: the exact product is
\* rounded to 53 bits, which reaches the next integer when the product is
\* within half a unit of the last place of it, and then cut to an integer
f64_mul_trunc(p, x) ==
    LET product == big_times(x.mantissa, p, 0)
        extra == bit_length(product) - 53
    IN  IF extra <= 0
        THEN shift_right(product, 0 - x.exp)
        ELSE shift_right(big_add(product, 2 ^ (extra - 1)), 0 - x.exp)

sign(v) == IF v < 0 THEN 0 - 1 ELSE 1
abs(v) == IF v < 0 THEN 0 - v ELSE v

\* (distribute * (duration / denominator)) as i64, denominator not 0
share_seconds(distribute, duration, denominator) ==
    IF distribute = 0 \/ duration = 0
    THEN 0
    ELSE sign(distribute) * sign(duration) * sign(denominator)
         * f64_mul_trunc(abs(distribute), f64_div(abs(duration), abs(denominator)))

-----------------------------------------------------------------------------
(* SpecParse: from_line on one line of up to MaxTokens words *)

T_A == <<"0", ":", "1">>
T_B == <<"2", "3", ":", "1", "0">>
T_BAD == <<"2", "5", ":", "0">>

ParseTokens == {T_A, T_B, T_BAD, REALLY, <<"#", "c">>, WORK, VAGUE, <<"7">>, TAG_S}

WordLists == UNION {[1..k -> ParseTokens] : k \in 0..MaxTokens}

\* the words as a line: single spaces, or padded with more whitespace
line_of(words, padded) ==
    IF padded
    THEN <<" ">> \o join(words, <<" ", "\t">>) \o <<" ">>
    ELSE join(words, <<" ">>)

InitParse ==
    /\ state = None
    /\ result = None
    /\ phase = "written"
    /\ n = 0
    /\ \E words \in WordLists, padded \in BOOLEAN :
          /\ call = [op |-> "from_line", words |-> words]
          /\ lines = <<Ok(line_of(words, padded))>>
    /\ pre = None
    /\ hist = NoHist
    /\ ledger = EmptyMap
    /\ pos = 0
    /\ ending = None
    /\ outcome = None
    /\ prefix \in Prefixes

NextParse == ReadLine

SpecParse == InitParse /\ [][NextParse]_vars

-----------------------------------------------------------------------------
(* subcommands/report.rs: cutoff and distribution over a finished Summary *)

\* .fold(Duration::zero(), |a, b| a + *b) over the activities in `names`
RECURSIVE sum_durations(_, _)
sum_durations(activities, names) ==
    IF names = {}
    THEN 0
    ELSE LET a == CHOOSE x \in names : TRUE
         IN  activities[a][1] + sum_durations(activities, names \ {a})

\* the sum of the activities with a duration below the cutoff time
cutoff_sum(activities, cutoff) ==
    IF cutoff = None
    THEN 0
    ELSE sum_durations(activities,
             {a \in DOMAIN activities :
                 ~is_break(a) /\ ~is_distributable(a) /\ activities[a][1] < cutoff[1]})

\* cutoff.unwrap_or_else(Duration::zero)
cutoff_or_zero(cutoff) == IF cutoff = None THEN 0 ELSE cutoff[1]

\* let distribute = if all { cutoff_total } else { cutoff_total + summary.distribute }
distribute_pool(summary, cutoff, all) ==
    IF all
    THEN cutoff_sum(summary.activities, cutoff)
    ELSE cutoff_sum(summary.activities, cutoff) + summary.distribute

\* summary.work_time - summary.distribute - cutoff_total
denominator(summary, cutoff) ==
    summary.work_time - summary.distribute - cutoff_sum(summary.activities, cutoff)

\* the activities that pass the filter
filtered(summary, cutoff, all) ==
    {a \in DOMAIN summary.activities :
        /\ ~is_break(a)
        /\ (all \/ ~is_distributable(a))
        /\ summary.activities[a][1] >= cutoff_or_zero(cutoff)}

\* the f64 product is infinite: a duration other than 0 divided by 0.0 is
\* infinite, and so is its product with a pool other than 0; `as i64` makes it
\* i64::MAX or i64::MIN, which Duration::seconds refuses
share_out_of_bounds(distribute, duration, denom) ==
    denom = 0 /\ duration # 0 /\ distribute # 0

\* (distribute * (duration / denom)) as i64; 0.0 / 0.0 and 0.0 * infinity are
\* NaN, and NaN as i64 is 0
share(distribute, duration, denom) ==
    IF denom = 0 THEN 0 ELSE share_seconds(distribute, duration, denom)

\* Duration::seconds(..) panics for one of the activities returned
distribute_panics(summary, cutoff, all) ==
    \E a \in filtered(summary, cutoff, all) :
        share_out_of_bounds(distribute_pool(summary, cutoff, all),
                            summary.activities[a][1],
                            denominator(summary, cutoff))

\* handle_cutoff_and_distribute keeping the breaks among the activities returned
handle_cutoff_and_distribute_with_breaks(summary, cutoff, all) ==
    [a \in {x \in DOMAIN summary.activities :
               /\ (all \/ ~is_distributable(x))
               /\ summary.activities[x][1] >= cutoff_or_zero(cutoff)} |->
        <<summary.activities[a][1]
            + share(distribute_pool(summary, cutoff, all),
                    summary.activities[a][1],
                    denominator(summary, cutoff)),
          summary.activities[a][2]>>]

\* name -> (duration + share, duration_map) for the activities that pass the filter
handle_cutoff_and_distribute(summary, cutoff, all) ==
    [a \in filtered(summary, cutoff, all) |->
        <<summary.activities[a][1]
            + share(distribute_pool(summary, cutoff, all),
                    summary.activities[a][1],
                    denominator(summary, cutoff)),
          summary.activities[a][2]>>]

-----------------------------------------------------------------------------
(* SpecReport: a day's log is collected, closed and distributed *)

MaxBlocks == 3

T_0 == <<"0", ":", "0">>
T_C == <<"0", ":", "3">>
T_NOW == <<"0", ":", "9">>
TASK == <<"x">>

\* log lines as `add` writes them: activities at three times, breaks, a
\* distributable activity, two time corrections, a replaced activity
ReportLines ==
    {line_of(<<t, a>>, FALSE) : t \in {T_0, T_A, T_C}, a \in {WORK, TASK, VAGUE, BREAK, END}}
    \cup {line_of(<<T_NOW, REALLY, T_0>>, FALSE),
          line_of(<<T_NOW, REALLY, T_C>>, FALSE),
          line_of(<<T_NOW, REALLY, VAGUE>>, FALSE)}

\* report without an end time, or closing the day at 0:05
ReportEndings == {None, Some(5 * 60)}

\* --cutoff is read by parse_duration: none, 0:01, 0:02
Cutoffs == {None, Some(60), Some(2 * 60)}

InitReport ==
    /\ state = None
    /\ result = None
    /\ phase = "collecting"
    /\ n = 0
    /\ call = [op |-> "new"]
    /\ pre = None
    /\ hist = NoHist
    /\ ledger = EmptyMap
    /\ lines = << >>
    /\ pos = 0
    /\ ending = None
    /\ outcome = None
    /\ prefix = None

\* one turn of collect_blocks: from_line, then collector.add
ReportLine ==
    \E line \in ReportLines :
        /\ Add(from_line(Ok(line), prefix).value, MaxBlocks)
        /\ UNCHANGED <<pre, hist, ledger, collectVars>>

\* Ok(collector.finalize(add_ending_at))
ReportFinalize ==
    \E at \in ReportEndings :
        /\ Finalize(at)
        /\ UNCHANGED <<pre, hist, ledger, collectVars>>

\* report_table: handle_cutoff_and_distribute(&summary, cutoff, all)
Distribute ==
    \E cutoff \in Cutoffs, all \in BOOLEAN :
        /\ phase = "finalized"
        /\ result # None
        /\ call' = [op |-> "report", cutoff |-> cutoff, all |-> all]
        /\ IF distribute_panics(result[1].summary, cutoff, all)
           THEN phase' = "panicked" /\ UNCHANGED outcome
           ELSE /\ outcome' = Some(handle_cutoff_and_distribute(result[1].summary, cutoff, all))
                /\ phase' = "reported"
        /\ UNCHANGED <<state, result, n, pre, hist, ledger, lines, pos, ending, prefix>>

NextReport == ReportLine \/ ReportFinalize \/ Distribute

SpecReport == InitReport /\ [][NextReport]_vars

-----------------------------------------------------------------------------
(* subcommands/add.rs: the add command *)

START == <<"s", "t", "a", "r", "t">>

is_start(activity) == activity = START \/ activity = <<"_">> \o START

UsageError(msg, context) == [kind |-> "UsageError", msg |-> msg, context |-> context]

ActivityConfigError(msg) == [kind |-> "ActivityConfigError", msg |-> msg, context |-> << >>]

\* NaiveTime - Duration::minutes(before): the time of day wraps at midnight
minutes_before(time, before) == (time - 60 * before) % 86400

\* converts the options to a Block that represents a log entry
block_from_opt(opt, logtime) ==
    LET distribute == IF opt.activity = None THEN None
                      ELSE Some(is_distributable(opt.activity[1]))
    IN  IF opt.really
        THEN IF opt.activity = None /\ opt.timestamp # None /\ opt.tags = << >>
             THEN Ok(TimeCorrection(minutes_before(opt.timestamp[1], opt.ago)))
             ELSE IF opt.activity = None /\ opt.timestamp = None
                     /\ opt.ago > 0 /\ opt.tags = << >>
             THEN Ok(TimeCorrection(minutes_before(logtime, opt.ago)))
             ELSE IF opt.activity # None /\ opt.timestamp = None /\ opt.ago = 0
             THEN Ok(ReallyBlock(BlockData(logtime, opt.activity[1], opt.tags, distribute[1])))
             ELSE Err(UsageError("really either needs an activity or a manual timestamp (which includes using --before)", << >>))
        ELSE IF opt.activity # None /\ opt.timestamp # None
             THEN Ok(NormalBlock(BlockData(minutes_before(opt.timestamp[1], opt.ago),
                                           opt.activity[1], opt.tags, distribute[1])))
             ELSE IF opt.activity # None
             THEN Ok(NormalBlock(BlockData(minutes_before(logtime, opt.ago),
                                           opt.activity[1], opt.tags, distribute[1])))
             ELSE Err(UsageError("please provide an activity.", << >>))

is_shortname(s) == starts_with(s, <<"=">>)

shortname_from_tag(s) == IF is_shortname(s) THEN Some(Tail(s)) ELSE None

\* one line of the activities file read into the map
read_activity_line(activity_map, words) ==
    IF Len(words) = 1
    THEN Insert(activity_map, words[1], <<words[1], << >>>>)
    ELSE LET shortname == words[1]
             activity == words[2]
             tags == SubSeq(words, 3, Len(words))
             with_shortname == Insert(activity_map, shortname, <<activity, tags>>)
             shortname_for_backlink ==
                 IF activity \in DOMAIN with_shortname THEN << >> ELSE <<shortname>>
         IN  Insert(with_shortname, activity, <<activity, shortname_for_backlink>>)

RECURSIVE read_activities_from(_, _)
read_activities_from(activity_map, configfile) ==
    IF configfile = << >>
    THEN Ok(activity_map)
    ELSE LET words == split_whitespace(Head(configfile))
         IN  IF words = << >>
             THEN Err(ActivityConfigError("Config activity lines wrong, correct format is <left> <right> or <activity>"))
             ELSE read_activities_from(read_activity_line(activity_map, words), Tail(configfile))

read_activities(configfile) == read_activities_from(EmptyMap, configfile)

\* data.tags.iter().find_map(shortname_from_tag)
RECURSIVE find_map_shortname(_)
find_map_shortname(tags) ==
    IF tags = << >>
    THEN None
    ELSE IF is_shortname(Head(tags))
         THEN shortname_from_tag(Head(tags))
         ELSE find_map_shortname(Tail(tags))

\* is_already_defined finding no shortname defined
is_already_defined_never(activity_map, shortname, activity) == FALSE

is_already_defined(activity_map, shortname, activity) ==
    IF shortname \in DOMAIN activity_map
    THEN activity_map[shortname][1] = activity
    ELSE FALSE

\* the lines a force-add writes to the activities file
new_shortcut(data, activity_map) ==
    LET found == find_map_shortname(data.tags)
    IN  IF found # None /\ ~is_already_defined(activity_map, found[1], data.activity)
        THEN LET other_tags == join(SelectSeq(data.tags, LAMBDA t : ~is_shortname(t)), <<" ">>)
                 sep == IF other_tags = << >> THEN << >> ELSE <<" ">>
             IN  <<found[1] \o <<" ">> \o data.activity \o sep \o other_tags>>
        ELSE << >>

\* activity_map.get taking an activity it does not hold as it is given
get_or_given(activity_map, activity) ==
    IF activity \in DOMAIN activity_map
    THEN Some(activity_map[activity])
    ELSE Some(<<activity, << >>>>)

\* activity_map.get(&activity)
get(activity_map, activity) ==
    IF activity \in DOMAIN activity_map THEN Some(activity_map[activity]) ELSE None

\* known_tags with the tags of the activities file before those of the user
known_tags_stored_first(activity, found_activity, tags, found_tags) ==
    (IF activity # found_activity THEN <<<<"=">> \o activity>> ELSE << >>) \o found_tags \o tags

\* data.tags.insert(0, "=<activity>"); data.tags.extend_from_slice(found_tags)
known_tags(activity, found_activity, tags, found_tags) ==
    (IF activity # found_activity THEN <<<<"=">> \o activity>> ELSE << >>) \o tags \o found_tags

\* validates the activity of a block and resolves shortnames: the block as it
\* is written, or the error, and the lines appended to the activities file
validate_activity(block, activity_map, pfx) ==
    IF block.kind \notin {"ReallyBlock", "NormalBlock"}
    THEN [block |-> Ok(block), appended |-> << >>]
    ELSE LET data == block.data
         IN  IF starts_with(data.activity, <<"+">>)
             THEN LET activity == resolve_prefix_for_number(Tail(data.activity), pfx)
                      forced == [data EXCEPT !.activity = activity,
                                             !.distribute = is_distributable(activity)]
                  IN  [block |-> Ok([block EXCEPT !.data = forced]),
                       appended |-> IF ~forced.distribute /\ ~is_break(activity)
                                       /\ ~is_start(activity)
                                    THEN new_shortcut(forced, activity_map)
                                    ELSE << >>]
             ELSE IF ~data.distribute /\ ~is_break(data.activity) /\ ~is_start(data.activity)
             THEN LET activity == resolve_prefix_for_number(data.activity, pfx)
                      found == get(activity_map, activity)
                  IN  IF found # None
                      THEN [block |-> Ok([block EXCEPT !.data =
                                [data EXCEPT
                                    !.activity = found[1][1],
                                    !.tags = known_tags(activity, found[1][1], @, found[1][2]),
                                    !.distribute = is_distributable(found[1][1])]]),
                            appended |-> << >>]
                      ELSE [block |-> Err(UsageError("activity not known, you can add it using the prefix '+'",
                                                     <<<<"validating activity", activity>>>>)),
                            appended |-> << >>]
             ELSE [block |-> Ok(block), appended |-> << >>]

\* an assertion of the collector failing: the run is aborted
Panic == [kind |-> "Panic", msg |-> "assertion failed", context |-> << >>]

\* collect_blocks over the lines of the log file: the collector, the first
\* error, or Panic when an assertion fails
RECURSIVE collect_lines(_, _, _)
collect_lines(st, logfile, pfx) ==
    IF logfile = << >>
    THEN Ok(st)
    ELSE LET block == from_line(Ok(Head(logfile)), pfx)
         IN  IF ~block.ok
             THEN Err(block.value)
             ELSE IF add_panics(st, block.value)
             THEN Err(Panic)
             ELSE collect_lines(add(st, block.value), Tail(logfile), pfx)

\* collect_blocks(logfile.reader()?.lines(), Some(&now.time()))?
collect_log(logfile, now, pfx) ==
    LET collected == collect_lines(None, logfile, pfx)
    IN  IF ~collected.ok
        THEN collected
        ELSE IF finalize_panics(collected.value, Some(now))
        THEN Err(Panic)
        ELSE Ok(finalize(collected.value, Some(now)))

\* the one element of a set of one element
Only(S) == CHOOSE x \in S : TRUE

\* add: the block is validated, written to the log file and the log file is
\* read for the report.  The line reaches the log file when the writer is
\* dropped, after the log file was read, also when the run is aborted: `read`
\* is what logfile.reader() gave to collect_blocks.
add_to_files(block, activity_map, now, logfile, activitiesfile, pfx) ==
    Only({ IF ~validated.block.ok
           THEN [returned |-> validated.block,
                 read |-> None,
                 logfile |-> logfile,
                 activitiesfile |-> activitiesfile \o validated.appended]
           ELSE [returned |-> Only({IF collected.ok THEN Ok(0) ELSE collected :
                                      collected \in {collect_log(logfile, now, pfx)}}),
                 read |-> Some(logfile),
                 logfile |-> Append(logfile, to_string(validated.block.value, now)),
                 activitiesfile |-> activitiesfile \o validated.appended] :
           validated \in {validate_activity(block, activity_map, pfx)} })

\* run: the value returned (Panic when the run is aborted), the lines of the
\* log file that were read for the report, and the two files after the run
run(opt, now, logfile, activitiesfile, pfx) ==
    Only({ IF ~block.ok
           THEN [returned |-> block, read |-> None, logfile |-> logfile,
                 activitiesfile |-> activitiesfile]
           ELSE IF ~activity_map.ok
           THEN [returned |-> activity_map, read |-> None, logfile |-> logfile,
                 activitiesfile |-> activitiesfile]
           ELSE add_to_files(block.value, activity_map.value, now, logfile,
                             activitiesfile, pfx) :
           block \in {block_from_opt(opt, now)},
           activity_map \in {read_activities(activitiesfile)} })

-----------------------------------------------------------------------------
(* SpecAdd: the add command is run up to MaxRuns times on the same files; a   *)
(* run that is aborted by a failed assertion leaves phase "panicked".         *)
(* `lines` is the log file, `ledger` the activities file, `pre` the two files *)
(* before the last run, `hist` the options of the run before the last,        *)
(* `result` the lines of the log file the last run read for its report.       *)

MaxRuns == 2

SHORT == <<"s">>
STORED == <<"u">>
PLUS_WORK == <<"+">> \o WORK
PLUS_NUMBER == <<"+", "7">>
PLUS_VAGUE == <<"+">> \o VAGUE

\* 08:00:00, the time of the tests
NOW == 8 * 3600

\* no activities file; a shortname with a stored tag; the activity alone; a
\* shortname of another activity and a ticket with its prefix
ActivitiesFiles ==
    { << >>,
      <<SHORT \o <<" ">> \o WORK \o <<" ">> \o STORED>>,
      <<WORK>>,
      <<<<"r", " ", "x">>, <<"P", "-", "7">>>> }

\* no log file yet, or an entry written at the time of the run
LogFiles == {<< >>, <<<<"0", "8", ":", "0", "0", " ">> \o WORK>>}

AddActivities ==
    {None, Some(WORK), Some(SHORT), Some(TASK), Some(<<"7">>), Some(PLUS_WORK),
     Some(PLUS_NUMBER), Some(VAGUE), Some(PLUS_VAGUE), Some(BREAK), Some(START)}

AddTags == {<< >>, <<TAG_T>>, <<TAG_S>>, <<TAG_T, TAG_S, TAG_R>>}

AddModes ==
    {<<FALSE, Some(7 * 3600 + 30 * 60), 0>>, <<FALSE, None, 120>>, <<TRUE, None, 0>>,
     <<TRUE, Some(7 * 3600 + 30 * 60), 0>>, <<TRUE, None, 120>>}

AddOpt(really, timestamp, ago, activity, tags) ==
    [really |-> really, timestamp |-> timestamp, ago |-> ago,
     activity |-> activity, tags |-> tags]

\* every activity with every list of tags at the current time, and --really,
\* --time, --ago as the tests combine them
AddOpts ==
    {AddOpt(FALSE, None, 0, a, tags) : a \in AddActivities, tags \in AddTags}
    \cup {AddOpt(m[1], m[2], m[3], a, tags) :
            m \in AddModes,
            a \in {None, Some(WORK), Some(PLUS_WORK)},
            tags \in {<< >>, <<TAG_S>>}}

InitAdd ==
    /\ state = None
    /\ result = None
    /\ phase = "idle"
    /\ n = 0
    /\ call = [op |-> "new"]
    /\ pre = None
    /\ hist = None
    /\ ledger \in ActivitiesFiles
    /\ lines \in LogFiles
    /\ pos = 0
    /\ ending = Some(NOW)
    /\ outcome = None
    /\ prefix \in Prefixes

\* one run of `tt add`
RunAdd ==
    /\ n < MaxRuns
    /\ \E opt \in AddOpts :
        \E done \in {run(opt, ending[1], lines, ledger, prefix)} :
            /\ n' = n + 1
            /\ call' = [op |-> "run", opt |-> opt]
            /\ hist' = IF call.op = "run" THEN Some(call.opt) ELSE None
            /\ pre' = Some([logfile |-> lines, activitiesfile |-> ledger])
            /\ lines' = done.logfile
            /\ ledger' = done.activitiesfile
            /\ result' = done.read
            /\ IF (IF done.returned.ok THEN FALSE ELSE done.returned.value.kind = "Panic")
               THEN phase' = "panicked" /\ outcome' = None
               ELSE phase' = "returned" /\ outcome' = Some(done.returned)
            /\ UNCHANGED <<state, pos, ending, prefix>>

NextAdd == RunAdd

SpecAdd == InitAdd /\ [][NextAdd]_vars

-----------------------------------------------------------------------------
(* subcommands/resume.rs: the resume stack *)

RESUME == <<"r", "e", "s", "u", "m", "e", ":">>

\* the value of a string of decimal digits
RECURSIVE decimal(_)
decimal(digits) ==
    IF digits = << >>
    THEN 0
    ELSE 10 * decimal(SubSeq(digits, 1, Len(digits) - 1)) + digit(digits[Len(digits)])

\* str::parse::<usize>: decimal digits, a '+' may come first; None on error
parse_usize(s) ==
    LET digits == IF s # << >> /\ Head(s) = "+" THEN Tail(s) ELSE s
    IN  IF digits = << >> \/ \E i \in 1..Len(digits) : ~is_digit(digits[i])
        THEN None
        ELSE Some(decimal(digits))

\* the offset of the first tag resume:<n>, 1 when there is none or <n> does
\* not parse
resume_offset(tags) ==
    LET marked == SelectSeq(tags, LAMBDA t : starts_with(t, RESUME))
    IN  IF marked = << >>
        THEN 1
        ELSE LET parsed == parse_usize(SubSeq(marked[1], Len(RESUME) + 1, Len(marked[1])))
             IN  IF parsed = None THEN 1 ELSE parsed[1]

\* the BlockData of the NormalBlocks and ReallyBlocks of the log, in order;
\* Panic on a line that does not parse (unwrap)
RECURSIVE resume_blocks(_, _, _)
resume_blocks(blocks, logfile, pfx) ==
    IF logfile = << >>
    THEN Ok(blocks)
    ELSE Only({ IF ~b.ok
                THEN Err(Panic)
                ELSE IF b.value.kind \in {"NormalBlock", "ReallyBlock"}
                THEN resume_blocks(Append(blocks, b.value.data), Tail(logfile), pfx)
                ELSE resume_blocks(blocks, Tail(logfile), pfx) :
                b \in {from_line(Ok(Head(logfile)), pfx)} })

\* the push of the walk taking breaks too
resume_push_with_breaks(stack, block, current_activity, distance) ==
    IF block.activity # current_activity
    THEN Append(stack, <<block.activity, block.tags, distance>>)
    ELSE stack

\* result.push((block.activity.clone(), block.tags.clone(), size - pos)) when
\* the block's activity is another one than the current and not a break
resume_push(stack, block, current_activity, distance) ==
    IF block.activity # current_activity /\ ~is_break(block.activity)
    THEN Append(stack, <<block.activity, block.tags, distance>>)
    ELSE stack

-----------------------------------------------------------------------------
(* SpecResume: find_resume_activities on a log of up to MaxResumeLines lines. *)
(* `state` holds the blocks, `result` the stack, `pos` the position of the    *)
(* walk, `hist` the current activity, `n` the iterations made so far,         *)
(* `outcome` the stack returned.                                              *)

MaxResumeLines == 4

\* more iterations than a walk that moves back on every iteration can make
MaxIterations == MaxResumeLines + 2

RESUME_0 == RESUME \o <<"0">>
RESUME_2 == RESUME \o <<"2">>
RESUME_Z == RESUME \o <<"z">>

\* entries of two activities, plain and resumed (offset 0, offset 2, an
\* offset that is no number), a break, an end, a replaced entry, a time
\* correction, a comment, and a line with no valid time
ResumeLines ==
    {line_of(<<T_A, a>> \o tags, FALSE) :
        a \in {WORK, TASK},
        tags \in {<< >>, <<RESUME_0>>, <<TAG_T, RESUME_2>>, <<RESUME_Z>>}}
    \cup {line_of(<<T_A, BREAK>>, FALSE),
          line_of(<<T_A, END>>, FALSE),
          line_of(<<T_A, REALLY, WORK>>, FALSE),
          line_of(<<T_A, REALLY, T_0>>, FALSE),
          line_of(<<<<"#", "c">>>>, FALSE),
          line_of(<<T_BAD, WORK>>, FALSE)}

ResumeLogs == UNION {[1..k -> ResumeLines] : k \in 0..MaxResumeLines}

InitResume ==
    /\ state = None
    /\ result = << >>
    /\ phase = "called"
    /\ n = 0
    /\ call = [op |-> "find_resume_activities"]
    /\ pre = None
    /\ hist = None
    /\ ledger = EmptyMap
    /\ lines \in ResumeLogs
    /\ pos = 0
    /\ ending = None
    /\ outcome = None
    /\ prefix = None

\* the log is read; with at most one block the empty stack is returned
ResumeRead ==
    /\ phase = "called"
    /\ \E blocks \in {resume_blocks(<< >>, lines, prefix)} :
        IF ~blocks.ok
        THEN /\ phase' = "panicked"
             /\ UNCHANGED <<state, pos, hist, outcome>>
        ELSE /\ state' = blocks.value
             /\ IF Len(blocks.value) <= 1
                THEN /\ phase' = "returned"
                     /\ outcome' = Some(result)
                     /\ UNCHANGED <<pos, hist>>
                ELSE /\ phase' = "walking"
                     /\ pos' = Len(blocks.value) - 1
                     /\ hist' = Some(blocks.value[Len(blocks.value)].activity)
                     /\ UNCHANGED outcome
    /\ UNCHANGED <<result, n, call, pre, ledger, lines, ending, prefix>>

\* one iteration of the loop
ResumeStep ==
    /\ phase = "walking"
    /\ n < MaxIterations
    /\ LET size == Len(state)
           block == state[pos + 1]
           offset == resume_offset(block.tags)
       IN  /\ result' = resume_push(result, block, hist[1], size - pos)
           /\ hist' = IF Len(result') > Len(result) THEN Some(block.activity) ELSE hist
           /\ IF pos < offset
              THEN /\ phase' = "returned"
                   /\ outcome' = Some(result')
                   /\ pre' = pre
                   /\ pos' = pos
              ELSE /\ pre' = Some(pos)
                   /\ pos' = pos - offset
                   /\ UNCHANGED <<phase, outcome>>
    /\ n' = n + 1
    /\ UNCHANGED <<state, call, ledger, lines, ending, prefix>>

NextResume == ResumeRead \/ ResumeStep

SpecResume == InitResume /\ [][NextResume]_vars

-----------------------------------------------------------------------------
(* subcommands/is_active.rs *)

\* is_active: Ok(false) for no result and for a final activity "break",
\* Ok(true) otherwise; the error of collect_blocks, Panic when it is aborted
is_active(add_endit_at, logfile, pfx) ==
    Only({ IF ~collected.ok
           THEN collected
           ELSE IF collected.value = None
           THEN Ok(FALSE)
           ELSE IF collected.value[1].final_activity = BREAK
           THEN Ok(FALSE)
           ELSE Ok(TRUE) :
           collected \in {collect_log(logfile, add_endit_at, pfx)} })

-----------------------------------------------------------------------------
(* SpecActive: is_active at 0:05 on a log of up to MaxActiveLines lines *)

MaxActiveLines == 3

\* entries at 0:01 and 0:03: work, break, end; replaced entries; a time
\* correction; a comment; a line with no valid time
ActiveLines ==
    {line_of(<<t, a>>, FALSE) : t \in {T_A, T_C}, a \in {WORK, BREAK, END}}
    \cup {line_of(<<T_C, REALLY, a>>, FALSE) : a \in {WORK, BREAK, END}}
    \cup {line_of(<<T_C, REALLY, T_A>>, FALSE),
          line_of(<<<<"#", "c">>>>, FALSE),
          line_of(<<T_BAD, WORK>>, FALSE)}

ActiveLogs == UNION {[1..k -> ActiveLines] : k \in 0..MaxActiveLines}

InitActive ==
    /\ state = None
    /\ result = None
    /\ phase = "called"
    /\ n = 0
    /\ call = [op |-> "is_active"]
    /\ pre = None
    /\ hist = None
    /\ ledger = EmptyMap
    /\ lines \in ActiveLogs
    /\ pos = 0
    /\ ending = Some(5 * 60)
    /\ outcome = None
    /\ prefix = None

\* is_active(&now.naive_local().time(), default_logfile.reader()?.lines())
IsActive ==
    /\ phase = "called"
    /\ \E active \in {is_active(ending[1], lines, prefix)} :
        IF (IF active.ok THEN FALSE ELSE active.value.kind = "Panic")
        THEN phase' = "panicked" /\ UNCHANGED outcome
        ELSE phase' = "returned" /\ outcome' = Some(active)
    /\ UNCHANGED <<state, result, n, call, pre, hist, ledger, lines, pos, ending, prefix>>

NextActive == IsActive

SpecActive == InitActive /\ [][NextActive]_vars

-----------------------------------------------------------------------------
(* Claims *)

\* the summary in hand: the collector's while collecting, the returned one after
Summaries ==
    (IF phase = "collecting" /\ state # None THEN {state[1].summary} ELSE {})
    \cup (IF phase = "finalized" /\ result # None THEN {result[1].summary} ELSE {})

DurOf(activities, a) == IF a \in DOMAIN activities THEN activities[a][1] ELSE 0

\* C1: after only NormalBlocks with strictly increasing starts on a fresh
\* collector, work_time + breaks = end - start in the summary (the collector's,
\* and the one finalize returns).
C1_MonotoneAccumulation ==
    \A s \in Summaries : s.work_time + s.breaks = s.end - s.start

C1_Witness ==
    /\ phase = "finalized" /\ result # None
    /\ result[1].summary.work_time > 0
    /\ result[1].summary.breaks > 0
    /\ n >= 2

\* The last call was add(TimeCorrection(t2)) on an open collector, the call
\* before it that was neither Comment nor Really was add(NormalBlock B), and
\* between NormalBlock A, which B closed, and B there were only Comment and
\* Really calls.
CorrectionAfterTwoBlocks ==
    /\ phase = "collecting"
    /\ state # None
    /\ call.op = "add"
    /\ call.block.kind = "TimeCorrection"
    /\ hist.a # None
    /\ hist.ncorr = 1

\* the summary credits `credited` for the closed interval to a block of
\* activity `activity` and flag `distribute`, on top of the summary `base`
CreditedTo(s, base, activity, distribute, credited) ==
    /\ DurOf(s.activities, activity) = DurOf(base.activities, activity) + credited
    /\ IF is_break(activity)
       THEN s.breaks = base.breaks + credited /\ s.work_time = base.work_time
       ELSE s.work_time = base.work_time + credited /\ s.breaks = base.breaks
    /\ s.distribute = base.distribute + (IF distribute THEN credited ELSE 0)

\* C2 as stated: after A (start t0), B (start t1), TimeCorrection(t2), with
\* only Comment/Really calls in between, t2 - t0 is credited to A's activity
\* total, to breaks or work_time by is_break(A.activity), to distribute if
\* A.distribute; summary.end = t2 and the open block starts at t2.
C2_AsStated ==
    CorrectionAfterTwoBlocks =>
        LET A == hist.a[1]
            t2 == call.block.time
            s == state[1].summary
        IN  /\ CreditedTo(s, hist.base[1], A.activity, A.distribute, t2 - A.start)
            /\ s.end = t2
            /\ state[1].last.start = t2
            /\ finalize(state, None)[1].final_start = t2

\* C2 amended: the time t2 - t0 is credited to the activity and distribute
\* flag the block opened by A has when B closes it: A's own, or those of the
\* last ReallyBlock between A and B.
C2_CorrectionCompensation ==
    CorrectionAfterTwoBlocks =>
        LET A == hist.a[1]
            closed == state[1].prev[1]
            t2 == call.block.time
            s == state[1].summary
        IN  /\ closed.start = A.start
            /\ CreditedTo(s, hist.base[1], closed.activity, closed.distribute, t2 - A.start)
            /\ s.end = t2
            /\ state[1].last.start = t2
            /\ finalize(state, None)[1].final_start = t2

\* A (not distributable) was replaced by a Really before B closed it, and the
\* correction moved B's start
C2_Witness ==
    /\ CorrectionAfterTwoBlocks
    /\ state[1].prev[1].activity # hist.a[1].activity
    /\ state[1].prev[1].distribute
    /\ call.block.time > hist.b[1].start
    /\ hist.b[1].start > hist.a[1].start

LedgerOf(a, g) == IF a \in DOMAIN ledger /\ g \in DOMAIN ledger[a] THEN ledger[a][g] ELSE 0

\* C3: for every activity a and tag g of summary.activities, the duration
\* recorded for g under a is the total time of the closed blocks of activity a
\* that carried g, each block counted once.
C3_PerTagAccounting ==
    \A s \in Summaries :
        \A a \in DOMAIN s.activities :
            \A g \in DOMAIN s.activities[a][2] :
                s.activities[a][2][g] = LedgerOf(a, g)

\* C4: finalize returns None exactly when no NormalBlock was ever added
\* (hist.b is the latest NormalBlock added, None if there is none), with and
\* without a closing time; until then the collector stays Empty.
C4_NoneIffNoNormalBlock ==
    /\ phase = "collecting" => (state = None <=> hist.b = None)
    /\ phase = "finalized" => (result = None <=> hist.b = None)

C4_Witness ==
    /\ phase = "finalized"
    /\ result = None
    /\ call.at # None
    /\ n >= 3

\* the last call was add(ReallyBlock) on an open collector
ReallyOnOpen ==
    /\ phase = "collecting"
    /\ call.op = "add"
    /\ call.block.kind = "ReallyBlock"
    /\ pre # None

\* C5: add(ReallyBlock(b)) on an open collector replaces the open block's
\* activity, tags and distribute flag by b's, keeps its start, and leaves the
\* summary and the previous block as they were.
C5_ReallyReplacesOpenBlock ==
    ReallyOnOpen =>
        LET b == call.block.data
            before == pre[1]
        IN  /\ state # None
            /\ state[1].last = BlockData(before.last.start, b.activity, b.tags, b.distribute)
            /\ state[1].summary = before.summary
            /\ state[1].prev = before.prev

C5_Witness ==
    /\ ReallyOnOpen
    /\ pre[1].prev # None
    /\ DOMAIN pre[1].summary.activities # {}
    /\ call.block.data.start # pre[1].last.start
    /\ call.block.data.activity # pre[1].last.activity
    /\ call.block.data.tags # pre[1].last.tags

\* the activities map with `d` more for activity `a` and for each tag of
\* `tagset` under it, every other entry as it was
Credited(activities, a, tagset, d) ==
    LET old == IF a \in DOMAIN activities THEN activities[a][2] ELSE EmptyMap
    IN  Insert(activities, a,
               <<DurOf(activities, a) + d,
                 [g \in (DOMAIN old) \cup tagset |->
                     (IF g \in DOMAIN old THEN old[g] ELSE 0)
                     + (IF g \in tagset THEN d ELSE 0)]>>)

\* C6: once a ReallyBlock r has replaced the open block, closing that block
\* credits the interval from its original start to r's activity and to each of
\* r's tags, and nothing to any other activity or tag (the replaced ones
\* included).
C6_ReallyGetsTheInterval ==
    ReallyOnOpen =>
        \A b \in DeepBlocks :
            b.start >= pre[1].last.start =>
                LET r == call.block.data
                    closed == add(state, NormalBlock(b))[1].summary
                IN  closed.activities =
                        Credited(pre[1].summary.activities, r.activity, Range(r.tags),
                                 b.start - pre[1].last.start)

\* finalize returned a result for the collector `pre`
Finalized == phase = "finalized" /\ pre # None

\* C7: finalize reports the open block as it was before the closing block is
\* added: its activity, its start, and as shortname the first of its tags that
\* starts with "=", None if there is none.
C7_FinalIdentity ==
    Finalized =>
        LET open == pre[1].last
            r == result[1]
            eq == {i \in DOMAIN open.tags : starts_with(open.tags[i], <<"=">>)}
        IN  /\ result # None
            /\ r.final_activity = open.activity
            /\ r.final_start = open.start
            /\ eq = {} => r.final_shortname = None
            /\ eq # {} => \E i \in eq :
                              /\ \A j \in eq : i <= j
                              /\ r.final_shortname = Some(open.tags[i])

C7_Witness ==
    /\ Finalized
    /\ call.at # None
    /\ pre[1].last.tags = <<TAG_T, TAG_S>>
    /\ pre[1].last.activity # BREAK
    /\ pre[1].prev # None
    /\ call.at[1] > pre[1].last.start

\* C8: finalize(Some(t)) closes the open block at t: t - current.start goes to
\* the open block's activity and each of its tags, to breaks or work_time, to
\* distribute if flagged; end becomes t; the closing block adds nothing else.
C8_FinalizeClosesAtTime ==
    (Finalized /\ call.at # None) =>
        LET t == call.at[1]
            open == pre[1].last
            d == t - open.start
            s0 == pre[1].summary
            s == result[1].summary
        IN  /\ s.activities = Credited(s0.activities, open.activity, Range(open.tags), d)
            /\ s.breaks = s0.breaks + (IF is_break(open.activity) THEN d ELSE 0)
            /\ s.work_time = s0.work_time + (IF is_break(open.activity) THEN 0 ELSE d)
            /\ s.distribute = s0.distribute + (IF open.distribute THEN d ELSE 0)
            /\ s.end = t
            /\ s.start = s0.start

\* C9: finalize(None) returns the summary as the last add left it; after a
\* single NormalBlock that is zero work_time and breaks, no activity, and
\* end = start.
C9_FinalizeNoneKeepsSummary ==
    (Finalized /\ call.at = None) =>
        /\ result[1].summary = pre[1].summary
        /\ pre[1].prev = None =>
              LET s == result[1].summary
              IN  /\ s.work_time = 0
                  /\ s.breaks = 0
                  /\ s.distribute = 0
                  /\ s.activities = EmptyMap
                  /\ s.end = s.start

C9_Witness ==
    /\ Finalized
    /\ call.at = None
    /\ pre[1].prev # None
    /\ result[1].summary.work_time > 0
    /\ result[1].summary.end > result[1].summary.start

\* the items of the line sequence that from_line turns into an error
failing == {i \in 1..Len(lines) : ~from_line(lines[i], prefix).ok}

\* C10: collect_blocks never gets past a line that fails to parse or to be
\* read: it returns the error of the first such line, with the line's literal
\* text for a parse error, and no summary, whatever lines precede or follow;
\* it returns Ok only when no line fails.
C10_FirstErrorReturned ==
    /\ \A i \in failing : i <= pos => (i = pos /\ phase = "returned")
    /\ failing # {} => (phase # "finalized" /\ result = None)
    /\ (outcome # None /\ outcome[1].ok) => failing = {}
    /\ phase = "returned" =>
          /\ outcome # None
          /\ ~outcome[1].ok
          /\ pos \in failing
          /\ \A j \in failing : pos <= j
          /\ LET e == outcome[1].value
                 line == lines[pos]
             IN  IF line.ok
                 THEN e.kind = "ParseError" /\ e.line = line.value
                 ELSE e.kind = "IoError" /\ e.msg = line.value

C10_Witness ==
    /\ phase = "returned"
    /\ pos = 2
    /\ Len(lines) = 3
    /\ state # None
    /\ outcome[1].value.kind = "ParseError"
    /\ Head(outcome[1].value.line) = " "
    /\ from_line(lines[3], prefix).ok

\* a block was written and the line read back
RoundTrip == phase = "parsed" /\ call.op = "to_string"

\* C11: a NormalBlock or ReallyBlock written with its own start as the
\* timestamp parses back to a block equal to it.
C11_RoundTrip ==
    (RoundTrip /\ call.block.kind \in {"NormalBlock", "ReallyBlock"}
               /\ call.timestamp = call.block.data.start) =>
        outcome[1] = Ok(call.block)

\* C12: a NormalBlock, ReallyBlock or TimeCorrection written with any
\* timestamp, equal to the block's start or not, parses back to the same event.
C12_SerializeThenParse ==
    RoundTrip => outcome[1] = Ok(call.block)

\* from_line has returned for a line made of the words call.words
Parsed == phase = "parsed" /\ call.op = "from_line"

\* what the words of SpecParse are, told without the parser
IsTime(w) == w \in {T_A, T_B}
TimeOf(w) == IF w = T_A THEN 60 ELSE 23 * 3600 + 10 * 60
IsHash(w) == w # << >> /\ w[1] = "#"

\* the message of the ParseError the words call for, "" if they call for none
ErrorFor(ws) ==
    IF ws = << >> \/ IsHash(ws[1]) THEN ""
    ELSE IF ~IsTime(ws[1]) THEN "cannot parse start time"
    ELSE IF Len(ws) = 1 THEN "Line does not contain at least 2 words"
    ELSE IF Len(ws) = 2 /\ (ws[2] = REALLY \/ IsTime(ws[2]))
    THEN "really block does not contain an activity"
    ELSE IF Len(ws) >= 4 /\ ws[2] = REALLY /\ IsTime(ws[3])
    THEN "time correction cannot have further data, i.e. use only <time> really <time>"
    ELSE ""

\* C13: from_line returns a ParseError with the unmodified line in exactly the
\* four cases (first word neither a comment nor a time; a time and no second
\* word; `really` or a manual time with no word after it; `really`, a time and
\* more words), each with its message, and an event in every other case.
C13_ParseErrorCases ==
    Parsed =>
        LET r == outcome[1]
            msg == ErrorFor(call.words)
        IN  IF msg = ""
            THEN r.ok
            ELSE ~r.ok /\ r.value = [kind |-> "ParseError", msg |-> msg,
                                     line |-> lines[1].value, context |-> << >>]

C13_Witness ==
    /\ Parsed
    /\ call.words = <<T_A, REALLY, T_B, WORK>>
    /\ Head(lines[1].value) = " "
    /\ ~outcome[1].ok
    /\ outcome[1].value.line = lines[1].value

\* C14: a line parses to CommentBlock exactly when it has no words, or its
\* first word starts with '#', or its first word is a time and its second
\* starts with '#'; a '#' second word after an invalid first word is a
\* ParseError.
C14_CommentLines ==
    Parsed =>
        LET ws == call.words
            r == outcome[1]
        IN  /\ (r.ok /\ r.value.kind = "CommentBlock") <=>
                  \/ ws = << >>
                  \/ IsHash(ws[1])
                  \/ (Len(ws) >= 2 /\ IsTime(ws[1]) /\ IsHash(ws[2]))
            /\ (Len(ws) >= 2 /\ ~IsTime(ws[1]) /\ ~IsHash(ws[1]) /\ IsHash(ws[2])) =>
                  (~r.ok /\ r.value.kind = "ParseError")

C14_Witness ==
    /\ Parsed
    /\ call.words = <<T_B, <<"#", "c">>, T_BAD>>
    /\ outcome[1] = Ok(CommentBlock)

\* C15: a line of exactly three words T1 really T2, both times, parses to
\* TimeCorrection(T2), whatever T1 is.
C15_TimeCorrectionLine ==
    Parsed =>
        LET ws == call.words
        IN  (Len(ws) = 3 /\ IsTime(ws[1]) /\ ws[2] = REALLY /\ IsTime(ws[3])) =>
                outcome[1] = Ok([kind |-> "TimeCorrection", time |-> TimeOf(ws[3])])

C15_Witness ==
    /\ Parsed
    /\ call.words = <<T_A, REALLY, T_B>>
    /\ Head(lines[1].value) = " "
    /\ outcome[1].ok
    /\ outcome[1].value.kind = "TimeCorrection"

\* the activity of word `act` after prefix resolution, for the words of SpecParse
Resolved(act) ==
    IF act \in {<<"7">>, T_A, T_B, T_BAD} /\ prefix # None
    THEN prefix[1] \o <<"-">> \o act
    ELSE act

BlockOf(kind, start, act, tags) ==
    Ok([kind |-> kind,
        data |-> [start |-> start, activity |-> Resolved(act), tags |-> tags,
                  distribute |-> (act # << >> /\ act[1] = "_")]])

\* C16: T1 act tag... is a NormalBlock starting at T1, T1 T2 act tag... a
\* NormalBlock starting at T2, T1 really act tag... a ReallyBlock starting at
\* T1; the activity is the prefix-resolved act, the tags are the remaining
\* words in order, distribute is is_distributable(act).  (act is a word that
\* is not read as something else at its place: in the first form not a
\* comment, `really` or a time, in the third not a time.)
C16_BlockLines ==
    Parsed =>
        LET ws == call.words
            r == outcome[1]
        IN  /\ (Len(ws) >= 2 /\ IsTime(ws[1]) /\ ~IsHash(ws[2]) /\ ws[2] # REALLY /\ ~IsTime(ws[2])) =>
                  r = BlockOf("NormalBlock", TimeOf(ws[1]), ws[2], SubSeq(ws, 3, Len(ws)))
            /\ (Len(ws) >= 3 /\ IsTime(ws[1]) /\ IsTime(ws[2])) =>
                  r = BlockOf("NormalBlock", TimeOf(ws[2]), ws[3], SubSeq(ws, 4, Len(ws)))
            /\ (Len(ws) >= 3 /\ IsTime(ws[1]) /\ ws[2] = REALLY /\ ~IsTime(ws[3])) =>
                  r = BlockOf("ReallyBlock", TimeOf(ws[1]), ws[3], SubSeq(ws, 4, Len(ws)))

C16_Witness ==
    /\ Parsed
    /\ call.words = <<T_A, T_B, <<"7">>, TAG_S>>
    /\ prefix # None
    /\ outcome[1].ok
    /\ outcome[1].value.data.start = TimeOf(T_B)
    /\ outcome[1].value.data.activity = <<"P", "-", "7">>
    /\ outcome[1].value.data.tags = <<TAG_S>>

-----------------------------------------------------------------------------
(* Claims about the distribution, in SpecReport *)

Reported == phase = "reported" /\ call.op = "report"

ReportedActivities == result[1].summary.activities

\* the sum of the adjusted durations returned
AdjustedSum == sum_durations(outcome[1], DOMAIN outcome[1])

\* the sum of the shares: adjusted durations less the activities' own durations
SharesSum == AdjustedSum - sum_durations(ReportedActivities, DOMAIN outcome[1])

AllAtOrAboveCutoff ==
    \A a \in DOMAIN ReportedActivities :
        ~is_break(a) => ReportedActivities[a][1] >= cutoff_or_zero(call.cutoff)

\* a run with all=false, every non-break activity at or above the cutoff, and
\* the shares adding up to the pool
Conserving ==
    /\ Reported
    /\ ~call.all
    /\ AllAtOrAboveCutoff
    /\ SharesSum = cutoff_sum(ReportedActivities, call.cutoff) + result[1].summary.distribute

\* C17 as stated: in a run with all=false in which every non-break activity is
\* at or above the cutoff and the pool is absorbed without residual, the sum
\* of the adjusted durations equals work_time - summary.breaks.
C17_AsStated ==
    Conserving => AdjustedSum = result[1].summary.work_time - result[1].summary.breaks

\* C17, amended: in such a run the sum of the adjusted durations equals
\* summary.work_time, which the collector keeps free of break time already.
C17_Conservation ==
    Conserving => AdjustedSum = result[1].summary.work_time

\* a day with a break and distributable time, all of it absorbed
C17_Witness ==
    /\ Conserving
    /\ result[1].summary.breaks > 0
    /\ result[1].summary.distribute > 0
    /\ AdjustedSum = result[1].summary.work_time

\* C18: when work_time - summary.distribute - cutoff_total is zero, the
\* distribution does not fail and every activity it returns keeps its own
\* duration (a share of zero), for all=false and all=true, with and without a
\* cutoff.
C18_ZeroDenominator ==
    (call.op = "report" /\ denominator(result[1].summary, call.cutoff) = 0) =>
        /\ phase = "reported"
        /\ \A a \in DOMAIN outcome[1] : outcome[1][a][1] = ReportedActivities[a][1]

\* the activities that are neither a break nor distributable
Plain == {a \in DOMAIN ReportedActivities : ~is_break(a) /\ ~is_distributable(a)}

\* C19: with all=false, an activity that is neither a break nor distributable
\* is returned when its duration is at least the cutoff and counted in
\* cutoff_total when it is below, never both and never neither; breaks and
\* distributable activities are never returned; with no cutoff, cutoff_total is
\* zero and every such activity is returned.
C19_CutoffPartition ==
    (Reported /\ ~call.all) =>
        LET returned == DOMAIN outcome[1]
            cutoff_total == cutoff_sum(ReportedActivities, call.cutoff)
        IN  /\ returned \subseteq Plain
            /\ cutoff_total = sum_durations(ReportedActivities, Plain \ returned)
            /\ call.cutoff # None =>
                  \A a \in Plain :
                      a \in returned <=> ReportedActivities[a][1] >= call.cutoff[1]
            /\ call.cutoff = None => cutoff_total = 0 /\ returned = Plain

\* the summary collect_blocks holds, while it reads the log and when it returns
Collected == state # None \/ result # None

CollectedSummary == IF result # None THEN result[1].summary ELSE state[1].summary

\* C20: for a log read by collect_blocks, summary.distribute is the sum of the
\* total durations of the activities whose name starts with '_'; work_time is
\* the sum over the activities other than "break" and "end", those with '_'
\* included; the time of "break" and "end" is in neither of them, only in
\* breaks.
C20_DistributeAndWorkTime ==
    Collected =>
        LET s == CollectedSummary
            names == DOMAIN s.activities
            underscore == {a \in names : a # << >> /\ a[1] = "_"}
            pauses == names \cap {BREAK, END}
        IN  /\ s.distribute = sum_durations(s.activities, underscore)
            /\ s.work_time = sum_durations(s.activities, names \ pauses)
            /\ s.breaks = sum_durations(s.activities, pauses)
            /\ underscore \cap pauses = {}

\* a closed day with distributable time, a break and an end
C20_Witness ==
    /\ phase = "finalized"
    /\ result # None
    /\ result[1].summary.distribute > 0
    /\ BREAK \in DOMAIN result[1].summary.activities
    /\ END \in DOMAIN result[1].summary.activities
    /\ result[1].summary.activities[END][1] > 0
    /\ result[1].summary.breaks > result[1].summary.activities[END][1]
    /\ result[1].summary.work_time = result[1].summary.distribute

-----------------------------------------------------------------------------
(* Claims about the collector under any interleaving of events, in SpecDeep *)

Open == phase = "collecting" /\ state # None

\* the last call was add(TimeCorrection(t)) on an open collector
Corrected ==
    /\ Open
    /\ pre # None
    /\ call.op = "add"
    /\ call.block.kind = "TimeCorrection"

\* C24: in every Open state with a previous block p, summary.activities has an
\* entry for p.activity, so the lookup of a TimeCorrection never fails, under
\* all interleavings of Normal, Really, TimeCorrection and Comment events.
C24_PreviousHasEntry ==
    (Open /\ state[1].prev # None) =>
        state[1].prev[1].activity \in DOMAIN state[1].summary.activities

\* a TimeCorrection found the entry of the previous block after the open block
\* was replaced by a ReallyBlock of another activity
C24_Witness ==
    /\ Corrected
    /\ pre[1].prev # None
    /\ pre[1].prev[1].activity # pre[1].last.activity
    /\ call.block.time # pre[1].last.start
    /\ state[1].summary.activities[pre[1].prev[1].activity][1]
          # pre[1].summary.activities[pre[1].prev[1].activity][1]

\* C25: a TimeCorrection(t) while no previous block exists sets summary.start,
\* summary.end and the open block's start to t and leaves breaks, work_time,
\* distribute (all zero) and the activities map (empty) as they are.
C25_CorrectionOfFirstBlock ==
    (Corrected /\ pre[1].prev = None) =>
        /\ state[1].summary = [start |-> call.block.time,
                               end |-> call.block.time,
                               breaks |-> 0,
                               work_time |-> 0,
                               activities |-> EmptyMap,
                               distribute |-> 0]
        /\ state[1].last = [pre[1].last EXCEPT !.start = call.block.time]
        /\ state[1].prev = None

\* the first block, replaced by a ReallyBlock, is moved to another time
C25_Witness ==
    /\ Corrected
    /\ pre[1].prev = None
    /\ n = 3
    /\ call.block.time # pre[1].summary.start
    /\ state[1].summary.start = call.block.time
    /\ state[1].last.start = call.block.time

\* C27: in any Open state TimeCorrection(t2) followed by TimeCorrection(t3)
\* leaves the collector in the same state, tag durations and both blocks
\* included, as TimeCorrection(t3) alone; TimeCorrection(t) with t the open
\* block's start changes nothing.
C27_CorrectionsCompose ==
    Open =>
        /\ \A t2 \in Times, t3 \in Times :
              add(add(state, TimeCorrection(t2)), TimeCorrection(t3))
                  = add(state, TimeCorrection(t3))
        /\ add(state, TimeCorrection(state[1].last.start)) = state

\* the second of two corrections in a row, of a block with a tagged previous
\* block: the state is what the second correction alone gives
C27_Witness ==
    /\ Corrected
    /\ hist.ncorr = 2
    /\ state[1].prev # None
    /\ state[1].prev[1].tags # << >>
    /\ call.block.time # pre[1].last.start
    /\ \E t1 \in Times :
          /\ t1 # call.block.time
          /\ state = add(add(pre, TimeCorrection(t1)), call.block)

\* C28: in every Open state, whatever events led to it, summary.end is the
\* open block's start and work_time + breaks = summary.end - summary.start.
C28_EndAndTotals ==
    Open =>
        /\ state[1].summary.end = state[1].last.start
        /\ state[1].summary.work_time + state[1].summary.breaks
              = state[1].summary.end - state[1].summary.start

\* after a correction following a break and work
C28_Witness ==
    /\ Corrected
    /\ state[1].summary.breaks > 0
    /\ state[1].summary.work_time > 0
    /\ call.block.time # pre[1].last.start
    /\ state[1].summary.end = call.block.time

\* the summaries of the collector and of the result finalize returned
Reachable ==
    (IF state # None THEN {state[1].summary} ELSE {})
    \cup (IF result # None THEN {result[1].summary} ELSE {})

\* C29: in every reachable state the total durations of all entries of
\* summary.activities add up to work_time + breaks, those of "break" and "end"
\* to breaks, and those of all other entries to work_time.
C29_ActivitiesAddUp ==
    \A s \in Reachable :
        LET names == DOMAIN s.activities
            pauses == names \cap {BREAK, END}
        IN  /\ sum_durations(s.activities, names) = s.work_time + s.breaks
            /\ sum_durations(s.activities, pauses) = s.breaks
            /\ sum_durations(s.activities, names \ pauses) = s.work_time

\* a closed day with entries for work, a distributable activity and a break
C29_Witness ==
    /\ phase = "finalized"
    /\ result # None
    /\ result[1].summary.breaks > 0
    /\ {WORK, VAGUE, BREAK} \subseteq DOMAIN result[1].summary.activities
    /\ result[1].summary.activities[WORK][1] > 0
    /\ result[1].summary.work_time > 0

\* C30: when the NormalBlocks come with non-decreasing starts and the closing
\* time is not earlier than the last of them, the assertion b.start >=
\* current.start holds at every NormalBlock, the closing block of finalize
\* included, whatever TimeCorrections and ReallyBlocks come in between: no
\* call panics.
C30_AssertionHolds == phase # "panicked"

-----------------------------------------------------------------------------
(* Claims about compensation, in SpecCompensate *)

\* the total duration of every activity, without the tag durations
Totals(activities) == [a \in DOMAIN activities |-> activities[a][1]]

\* start, end, breaks, work_time, distribute and the activity totals
SameTotals(s, t) ==
    /\ s.start = t.start
    /\ s.end = t.end
    /\ s.breaks = t.breaks
    /\ s.work_time = t.work_time
    /\ s.distribute = t.distribute
    /\ Totals(s.activities) = Totals(t.activities)

\* C26: replacing the adjacent pair NormalBlock b (start t1), TimeCorrection(t2)
\* in an event sequence by NormalBlock b with start t2, t2 not earlier than
\* the start of the block open before b, gives the same summary start, end,
\* breaks, work_time, distribute and activity totals, and the same
\* final_activity, final_shortname and final_start; so it does at every event
\* after the pair.
C26_CompensationIsRecomputation ==
    pos # 0 =>
        /\ (phase = "collecting") =>
              /\ SameTotals(state[1].summary, pre[1].summary)
              /\ state[1].last = pre[1].last
              /\ state[1].prev = pre[1].prev
        /\ (phase = "finalized") =>
              /\ SameTotals(result[1].summary, outcome[1][1].summary)
              /\ result[1].final_activity = outcome[1][1].final_activity
              /\ result[1].final_shortname = outcome[1][1].final_shortname
              /\ result[1].final_start = outcome[1][1].final_start

\* a pair that moved the end of a distributable block, with an event after it
C26_Witness ==
    /\ phase = "finalized"
    /\ pos >= 2
    /\ n > pos
    /\ ledger.time # ledger.block.start
    /\ result[1].summary.distribute > 0
    /\ result[1].summary.work_time = 2
    /\ SameTotals(result[1].summary, outcome[1][1].summary)

-----------------------------------------------------------------------------
(* Claims about the add command *)

\* the last step was a run of `tt add` with an activity
AddedActivity == call.op = "run" /\ call.opt.activity # None

\* the run returned this kind of error
Failed(kind) ==
    /\ phase = "returned"
    /\ IF outcome[1].ok THEN FALSE ELSE outcome[1].value.kind = kind

\* the first two words of the lines of the activities file: the shortnames and
\* the activities it names
Named(activitiesfile) ==
    UNION { {split_whitespace(activitiesfile[i])[j] :
                j \in 1..(IF Len(split_whitespace(activitiesfile[i])) < 2
                          THEN Len(split_whitespace(activitiesfile[i])) ELSE 2)} :
            i \in 1..Len(activitiesfile) }

\* the activity needs an entry in the activities file and has none
Unknown(activity, activitiesfile) ==
    /\ ~is_distributable(activity)
    /\ ~is_break(activity)
    /\ ~is_start(activity)
    /\ ~starts_with(activity, <<"+">>)
    /\ resolve_prefix_for_number(activity, prefix) \notin Named(activitiesfile)

\* C21: a run of add with an activity that is not distributable, not a break,
\* not a start, not prefixed with '+' and not named in the activities file
\* fails with a UsageError, and the log file and the activities file are as
\* they were before the run.
C21_UnknownActivityRejected ==
    (AddedActivity /\ Unknown(call.opt.activity[1], pre[1].activitiesfile))
        => /\ Failed("UsageError")
           /\ lines = pre[1].logfile
           /\ ledger = pre[1].activitiesfile

\* an unknown activity was added with tags, without --really, to files that
\* both hold lines already
C21_Witness ==
    /\ AddedActivity
    /\ Unknown(call.opt.activity[1], pre[1].activitiesfile)
    /\ ~call.opt.really
    /\ call.opt.tags # << >>
    /\ pre[1].logfile # << >>
    /\ pre[1].activitiesfile # << >>
    /\ Failed("UsageError")
    /\ outcome[1].value.msg = "activity not known, you can add it using the prefix '+'"

\* the words of the last line of the activities file that defines the
\* shortname: <shortname> <activity> [tags], or None
Shortcut(shortname, activitiesfile) ==
    LET defining == {i \in 1..Len(activitiesfile) :
                        /\ Len(split_whitespace(activitiesfile[i])) >= 2
                        /\ split_whitespace(activitiesfile[i])[1] = shortname}
    IN  IF defining = {}
        THEN None
        ELSE Some(split_whitespace(
                activitiesfile[CHOOSE i \in defining : \A j \in defining : j <= i]))

\* the options describe an entry: an activity, and with --really no time
ValidEntry(opt) ==
    /\ opt.activity # None
    /\ opt.really => (opt.timestamp = None /\ opt.ago = 0)

\* a word of a log line before the activity: a time HH:MM or "really"
IsStamp(word) ==
    \/ word = <<"r", "e", "a", "l", "l", "y">>
    \/ (Len(word) = 5 /\ word[3] = ":")

\* the last `k` words of a sequence of words
LastWords(words, k) == SubSeq(words, Len(words) - k + 1, Len(words))

\* the run appended one line to the log file: stamps, then these words
Logged(words) ==
    /\ Len(lines) = Len(pre[1].logfile) + 1
    /\ SubSeq(lines, 1, Len(pre[1].logfile)) = pre[1].logfile
    /\ LET written == split_whitespace(lines[Len(lines)])
       IN  /\ Len(written) > Len(words)
           /\ LastWords(written, Len(words)) = words
           /\ \A i \in 1..(Len(written) - Len(words)) : IsStamp(written[i])

\* C22: adding an activity by a shortname that the activities file defines
\* writes a log line with the activity the shortname stands for and the tags
\* `=<shortname>`, then the tags of the user, then the tags stored with the
\* shortname; the activities file is as it was before the run.
C22_ShortnameResolved ==
    (call.op = "run" /\ ValidEntry(call.opt)
     /\ Shortcut(call.opt.activity[1], pre[1].activitiesfile) # None)
        => LET shortname == call.opt.activity[1]
               shortcut == Shortcut(shortname, pre[1].activitiesfile)[1]
           IN  /\ Logged(<<shortcut[2], <<"=">> \o shortname>>
                         \o call.opt.tags \o SubSeq(shortcut, 3, Len(shortcut)))
               /\ ledger = pre[1].activitiesfile

\* a shortname with a stored tag was added with a tag of the user
C22_Witness ==
    /\ call.op = "run"
    /\ ValidEntry(call.opt)
    /\ call.opt.tags # << >>
    /\ Shortcut(call.opt.activity[1], pre[1].activitiesfile) # None
    /\ Len(Shortcut(call.opt.activity[1], pre[1].activitiesfile)[1]) > 2
    /\ phase = "returned"
    /\ outcome[1].ok
    /\ Len(lines) > Len(pre[1].logfile)

\* the run was a force-add: an entry whose activity starts with '+'
ForceAdded ==
    /\ call.op = "run"
    /\ ValidEntry(call.opt)
    /\ starts_with(call.opt.activity[1], <<"+">>)

\* the activity a force-add names, with its ticket prefix
Forced == resolve_prefix_for_number(Tail(call.opt.activity[1]), prefix)

\* the shortnames among the tags of the user, without '='
Shortnames == SelectSeq(call.opt.tags, LAMBDA t : Len(t) > 0 /\ t[1] = "=")

\* the other tags of the user
OtherTags == SelectSeq(call.opt.tags, LAMBDA t : ~(Len(t) > 0 /\ t[1] = "="))

\* the activities file before the run maps the shortname to the activity
Mapped(shortname, activity) ==
    IF Shortcut(shortname, pre[1].activitiesfile) = None
    THEN FALSE
    ELSE Shortcut(shortname, pre[1].activitiesfile)[1][2] = activity

\* the run appended one line to the activities file
AppendedShortcut ==
    /\ Len(ledger) = Len(pre[1].activitiesfile) + 1
    /\ SubSeq(ledger, 1, Len(pre[1].activitiesfile)) = pre[1].activitiesfile

\* C23: a force-add `+activity =short [tags]` leaves the activities file as it
\* was or appends the one line `short activity [other tags]`, and appends it
\* only when the file did not map short to that activity; a force-add that
\* repeats the options of the run before it appends nothing; a force-add
\* without a tag that starts with '=' leaves the activities file as it was.
C23_ShortcutAppendedOnce ==
    ForceAdded
        => /\ ledger = pre[1].activitiesfile \/ AppendedShortcut
           /\ AppendedShortcut
                => /\ Shortnames # << >>
                   /\ split_whitespace(ledger[Len(ledger)])
                        = <<Tail(Shortnames[1]), Forced>> \o OtherTags
                   /\ ~Mapped(Tail(Shortnames[1]), Forced)
           /\ hist = Some(call.opt) => ledger = pre[1].activitiesfile
           /\ Shortnames = << >> => ledger = pre[1].activitiesfile

\* the same force-add with a shortname and another tag ran twice on an empty
\* activities file: the first run wrote the line, the second left it alone
C23_Witness ==
    /\ ForceAdded
    /\ hist = Some(call.opt)
    /\ Shortnames # << >>
    /\ OtherTags # << >>
    /\ Len(ledger) = 1
    /\ split_whitespace(ledger[1]) = <<Tail(Shortnames[1]), Forced>> \o OtherTags
    /\ ledger = pre[1].activitiesfile
    /\ Len(lines) = 2

-----------------------------------------------------------------------------
(* Claims about the sign of durations *)

\* every duration of the summary is zero or more
NonNegative(s) ==
    /\ s.breaks >= 0
    /\ s.work_time >= 0
    /\ s.distribute >= 0
    /\ \A a \in DOMAIN s.activities :
        /\ s.activities[a][1] >= 0
        /\ \A tag \in DOMAIN s.activities[a][2] : s.activities[a][2][tag] >= 0

\* C31: in every state reached without a failed assertion, summary.breaks,
\* summary.work_time, summary.distribute and the durations of every activity
\* and of every tag are zero or more, also after a TimeCorrection to a time
\* before the recorded start of the block it corrects.
C31_DurationsNonNegative == \A s \in Reachable : NonNegative(s)

\* C32: for a summary of the collector without a negative duration, any
\* cutoff or none, all=false and all=true, the adjusted durations returned
\* add up to no more than summary.work_time: the denominator is the sum of the
\* own durations of the activities that receive a share.
C32_SharesWithinWorkTime ==
    (Reported /\ NonNegative(result[1].summary)) =>
        /\ AdjustedSum <= result[1].summary.work_time
        /\ denominator(result[1].summary, call.cutoff)
             = sum_durations(ReportedActivities, DOMAIN outcome[1])

-----------------------------------------------------------------------------
(* Claims about the resume stack, in SpecResume *)

\* C33: find_resume_activities terminates for every log whose lines all
\* parse: on every iteration after which the walk goes on, the position is
\* smaller than before, whatever the <n> of a tag resume:<n> is (0, no number,
\* more than the position).
C33_WalkMovesBack ==
    [][(phase = "walking" /\ phase' = "walking") => pos' < pos]_vars

\* the stack find_resume_activities returned
Stack == outcome[1]

\* the block an entry of the stack was taken from: `offset` blocks from the
\* end of the Normal and Really blocks of the log, the last one being 1 away
Origin(offset) == state[Len(state) - offset + 1]

\* C34: the stack returned lists the activities most recent first; it holds
\* no break ("break" or "end"); no two neighbours are equal; its first entry
\* is another activity than that of the last block of the log; the offset of
\* every entry is the distance from the end of the log to the block the entry
\* was taken from; and it is empty when the log holds at most one Normal or
\* Really block.
C34_ResumeStack ==
    (phase = "returned" /\ call.op = "find_resume_activities") =>
        /\ \A i, j \in 1..Len(Stack) : i < j => Stack[i][3] < Stack[j][3]
        /\ \A i \in 1..Len(Stack) : ~is_break(Stack[i][1])
        /\ \A i \in 1..(Len(Stack) - 1) : Stack[i][1] # Stack[i + 1][1]
        /\ Stack # << >> => Stack[1][1] # state[Len(state)].activity
        /\ \A i \in 1..Len(Stack) :
            /\ Stack[i][3] \in 1..Len(state)
            /\ Origin(Stack[i][3]).activity = Stack[i][1]
            /\ Origin(Stack[i][3]).tags = Stack[i][2]
        /\ Len(state) <= 1 => Stack = << >>

\* a log that ends with a break: a stack of two activities, the first with
\* tags, the second four blocks from the end
C34_Witness ==
    /\ phase = "returned"
    /\ call.op = "find_resume_activities"
    /\ Len(Stack) = 2
    /\ Stack[1][2] # << >>
    /\ Stack[2][3] = 4
    /\ \E i \in 1..Len(state) : is_break(state[i].activity)

-----------------------------------------------------------------------------
(* Claims about the order of writing and reading in add, in SpecAdd *)

\* C35: add writes the line to the log file before it reads the log file
\* again: the log that is collected for the report of the run holds the line
\* the run appended.
C35_ReadsWhatItWrote ==
    (call.op = "run" /\ result # None) => result[1] = lines

-----------------------------------------------------------------------------
(* Claims about is_active, in SpecActive *)

\* the blocks of the lines of the log
LogBlocks == [i \in 1..Len(lines) |-> from_line(Ok(lines[i]), prefix).value]

\* the log holds a NormalBlock
HasNormalBlock == \E i \in 1..Len(lines) : LogBlocks[i].kind = "NormalBlock"

\* the activity of the block that is open at the end of the log: that of the
\* last NormalBlock, or of the last ReallyBlock after a NormalBlock
OpenActivity ==
    LET opening == {i \in 1..Len(lines) :
                       \/ LogBlocks[i].kind = "NormalBlock"
                       \/ /\ LogBlocks[i].kind = "ReallyBlock"
                          /\ \E j \in 1..(i - 1) : LogBlocks[j].kind = "NormalBlock"}
    IN  LogBlocks[CHOOSE i \in opening : \A j \in opening : j <= i].data.activity

\* is_active returned a truth value
Answered == call.op = "is_active" /\ phase = "returned" /\ outcome[1].ok

\* C36: is_active returns true exactly when the log holds at least one
\* NormalBlock and the activity open at the end of the log is no break, a
\* break being "break" or "end" (is_break); it returns false for an empty log
\* and for a log whose final activity is a break.
C36_ActiveUnlessBreak ==
    Answered =>
        outcome[1].value = (HasNormalBlock /\ ~is_break(OpenActivity))

=============================================================================
